---- MODULE Spec2Model ----
(***************************************************************************)
(* Metro Compute Overlay: latency model, cost model, latency rings and the *)
(* region-fill planner, modelled from the TypeScript sources.              *)
(*                                                                         *)
(* Numbers.  The sources compute on decimal literals; the model keeps the  *)
(* same formulas on exact fixed-point integers:                            *)
(*   latency   microseconds (1 ms = 1000)                                  *)
(*   weights   hundredths   (1.0  = 100)                                   *)
(*   money     1e-5 USD     (1 USD = 100000)                               *)
(*   lengths   half centimetres of the planner's flat metric               *)
(* IEEE-754 rounding of the last bit is not part of the model.             *)
(***************************************************************************)
EXTENDS Integers, Sequences, FiniteSets, TLC

VARIABLES
  params,            \* LatencyParams handed to the latency functions
  cloudLatency,      \* last result of calcCloudLatency(params)
  edgeLatency,       \* last result of calcEdgeLatency(params)
  latencyBreakdown,  \* last result of calcLatencyBreakdown(params, isEdge)
  node,              \* Node handed to the cost functions
  usage,             \* Usage handed to the cost functions
  costFlags,         \* CostFlags handed to the cost functions
  cloudCost,         \* last result of calcCloudCost(node, usage, costFlags)
  edgeCost,          \* last result of calcEdgeCost(node, usage, costFlags)
  costBreakdown,     \* last result of calcCostBreakdown(node, usage, costFlags)
  ringNodes,         \* nodes handed to createLatencyRingFeatures
  ringMode,          \* threshold and radiusMultiplier handed to it
  ringFeatures,      \* last result of createLatencyRingFeatures
  userGridSites,     \* store: user-placed GridSite nodes
  showFillRegionModal, \* Home state
  isDrawingMode,     \* Home state
  drawnPolygon,      \* Home state
  showLatencyModal,  \* Home state
  radiusMultiplier,  \* Home state
  calculateOnlyMode, \* Home state
  currentPolygon,    \* MapCanvas state
  mousePosition,     \* MapCanvas drawing effect: last mouse position
  pendingPolygons,   \* MapCanvas: setDrawnPolygon calls queued by setTimeout
  fill,              \* locals of the last handleFillRegion call
  deleteAll,         \* locals of the last handleDeleteAllGridSites call
  pointInPolygon,    \* arguments and result of the last isPointInPolygon call
  powerOverlay,      \* store: the power overlay and its sub-layer flags
  powerMap,          \* the map: power layers, their handlers, handlerStorage, style
  overlayEffect,     \* MapCanvas: the power-overlay effect, pending or run
  storeNodes,        \* store: nodes, the catalog
  selectedNodes,     \* store: ids of the selected nodes
  pointOfUse,        \* store
  selectedWorkload,  \* store
  filters,           \* store
  compareMode,       \* store
  latencyRingMode,   \* store
  isPlacingGridSite, \* Home state
  isPlacingPointOfUse, \* Home state
  isDeleteMode,      \* Home state
  now,               \* Date.now()
  nodesSource,       \* MapCanvas: data of the map's 'nodes' source
  nodeClickHandler,  \* MapCanvas: closure registered on the 'nodes-circle' layer
  sender,            \* the application state a URL was shared from
  url,               \* window.location.search of this application
  decoded,           \* last result of decodeStateFromUrl
  mounted            \* Home: the on-mount effect has run

latencyVars == <<params, cloudLatency, edgeLatency, latencyBreakdown>>
costVars == <<node, usage, costFlags, cloudCost, edgeCost, costBreakdown>>
ringVars == <<ringNodes, ringMode, ringFeatures>>
storeVars == <<userGridSites>>
homeVars == <<showFillRegionModal, isDrawingMode, drawnPolygon, showLatencyModal,
              radiusMultiplier, calculateOnlyMode>>
canvasVars == <<currentPolygon, mousePosition, pendingPolygons>>
stateVars == <<storeNodes, selectedNodes, pointOfUse, selectedWorkload, filters,
               compareMode, latencyRingMode>>
modeVars == <<isPlacingGridSite, isPlacingPointOfUse, isDeleteMode, now>>
layerVars == <<nodesSource, nodeClickHandler>>
urlVars == <<sender, url, decoded, mounted>>
powerVars == <<powerOverlay, powerMap, overlayEffect>>
pageVars == <<stateVars, modeVars, layerVars, urlVars, deleteAll, pointInPolygon, powerVars>>
appVars == <<storeVars, homeVars, canvasVars, fill, pageVars>>

vars == <<latencyVars, costVars, ringVars, appVars>>

NotComputed == -1

RECURSIVE SumSeq(_)
SumSeq(s) == IF s = <<>> THEN 0 ELSE Head(s) + SumSeq(Tail(s))

(***************************************************************************)
(* constants.ts : LATENCY_CONSTANTS                                        *)
(***************************************************************************)
C_FIBER == 200000
\* 1.2, in tenths
PATH_INEFFICIENCY == 12
\* per-hop milliseconds, in microseconds
PER_HOP_MS ==
  [ internet_gateway      |-> 1000,
    load_balancer         |-> 1200,
    tls_handshake         |-> 800,
    vpc_routing           |-> 600,
    ecs_eks_orchestration |-> 1000,
    gpu_cold_start        |-> 10000,
    model_gpu_load        |-> 4000,
    queueing_multitenant  |-> 1500,
    noisy_neighbor        |-> 800,
    data_retrieval        |-> 2000,
    longhaul_pop_or_xaz   |-> 2500,
    serverless_overhead   |-> 1300 ]
EDGE_LOCAL_ROUTING_MS == 500

\* the ten components of LatencyWeights
WeightNames ==
  { "load_balancer", "tls_handshake", "ecs_eks_orchestration",
    "gpu_cold_start", "model_gpu_load", "queueing_multitenant",
    "noisy_neighbor", "data_retrieval", "longhaul_pop_or_xaz",
    "serverless_overhead" }

\* hop constant (microseconds) times weight (hundredths), in microseconds
Weighted(hop, w) == (hop * w) \div 100

(***************************************************************************)
(* latency.ts                                                              *)
(***************************************************************************)
\* effectiveKm = distanceKm * 1.2 ; (effectiveKm / C_FIBER) * 1000 ms.
\* In microseconds: distanceKm * 12/10 * 1000 * 1000 / C_FIBER.
calcPropagationMs(distanceKm) ==
  LET effectiveKm10 == distanceKm * PATH_INEFFICIENCY
  IN  (effectiveKm10 * 1000) \div (C_FIBER \div 100)

calcCloudLatency(p) ==
  LET propRtt == calcPropagationMs(p.distanceKm) * 2
      weights == p.weights
  IN  propRtt
      + PER_HOP_MS.internet_gateway
      + Weighted(PER_HOP_MS.load_balancer, weights.load_balancer)
      + Weighted(PER_HOP_MS.tls_handshake, weights.tls_handshake)
      + PER_HOP_MS.vpc_routing
      + Weighted(PER_HOP_MS.ecs_eks_orchestration, weights.ecs_eks_orchestration)
      + Weighted(PER_HOP_MS.gpu_cold_start, weights.gpu_cold_start)
      + Weighted(PER_HOP_MS.model_gpu_load, weights.model_gpu_load)
      + Weighted(PER_HOP_MS.queueing_multitenant, weights.queueing_multitenant)
      + Weighted(PER_HOP_MS.noisy_neighbor, weights.noisy_neighbor)
      + Weighted(PER_HOP_MS.data_retrieval, weights.data_retrieval)
      + Weighted(PER_HOP_MS.longhaul_pop_or_xaz, weights.longhaul_pop_or_xaz)
      + Weighted(PER_HOP_MS.serverless_overhead, weights.serverless_overhead)
      + p.inferenceMs

\* an edge total that leaves out the local routing hop
calcEdgeLatencyWithoutRouting(p) ==
  LET propRtt == calcPropagationMs(p.distanceKm) * 2
  IN  propRtt + p.inferenceMs

\* an edge path that also pays the internet gateway and the VPC routing
calcEdgeLatencyThroughGateway(p) ==
  LET propRtt == calcPropagationMs(p.distanceKm) * 2
  IN  EDGE_LOCAL_ROUTING_MS + PER_HOP_MS.internet_gateway + PER_HOP_MS.vpc_routing
      + propRtt + p.inferenceMs

calcEdgeLatency(p) ==
  LET propRtt == calcPropagationMs(p.distanceKm) * 2
  IN  EDGE_LOCAL_ROUTING_MS + propRtt + p.inferenceMs

\* a cloud breakdown that reports the internet gateway and the VPC routing
\* under one key
calcLatencyBreakdownMergedRouting(p, isEdge) ==
  LET propRtt == calcPropagationMs(p.distanceKm) * 2
      weights == p.weights
  IN  IF isEdge
      THEN [ isEdge |-> TRUE,
             keys   |-> << "propagation", "edgeRouting", "inference" >>,
             terms  |-> << propRtt, EDGE_LOCAL_ROUTING_MS, p.inferenceMs >>,
             total  |-> calcEdgeLatency([distanceKm |-> p.distanceKm,
                                         inferenceMs |-> p.inferenceMs]) ]
      ELSE [ isEdge |-> FALSE,
             keys   |-> << "propagation", "routing", "loadBalancer",
                           "tlsHandshake", "orchestration",
                           "gpuColdStart", "modelGpuLoad", "queueing",
                           "noisyNeighbor", "dataRetrieval", "longhaul",
                           "serverlessOverhead", "inference" >>,
             terms  |-> << propRtt,
                           PER_HOP_MS.internet_gateway + PER_HOP_MS.vpc_routing,
                           Weighted(PER_HOP_MS.load_balancer, weights.load_balancer),
                           Weighted(PER_HOP_MS.tls_handshake, weights.tls_handshake),
                           Weighted(PER_HOP_MS.ecs_eks_orchestration, weights.ecs_eks_orchestration),
                           Weighted(PER_HOP_MS.gpu_cold_start, weights.gpu_cold_start),
                           Weighted(PER_HOP_MS.model_gpu_load, weights.model_gpu_load),
                           Weighted(PER_HOP_MS.queueing_multitenant, weights.queueing_multitenant),
                           Weighted(PER_HOP_MS.noisy_neighbor, weights.noisy_neighbor),
                           Weighted(PER_HOP_MS.data_retrieval, weights.data_retrieval),
                           Weighted(PER_HOP_MS.longhaul_pop_or_xaz, weights.longhaul_pop_or_xaz),
                           Weighted(PER_HOP_MS.serverless_overhead, weights.serverless_overhead),
                           p.inferenceMs >>,
             total  |-> calcCloudLatency(p) ]

\* The returned object, as the sequence of its keys other than `total`
\* (in property order), the values under those keys, and `total`.
calcLatencyBreakdown(p, isEdge) ==
  LET propRtt == calcPropagationMs(p.distanceKm) * 2
      weights == p.weights
  IN  IF isEdge
      THEN [ isEdge |-> TRUE,
             keys   |-> << "propagation", "edgeRouting", "inference" >>,
             terms  |-> << propRtt, EDGE_LOCAL_ROUTING_MS, p.inferenceMs >>,
             total  |-> calcEdgeLatency([distanceKm |-> p.distanceKm,
                                         inferenceMs |-> p.inferenceMs]) ]
      ELSE [ isEdge |-> FALSE,
             keys   |-> << "propagation", "internetGateway", "loadBalancer",
                           "tlsHandshake", "vpcRouting", "orchestration",
                           "gpuColdStart", "modelGpuLoad", "queueing",
                           "noisyNeighbor", "dataRetrieval", "longhaul",
                           "serverlessOverhead", "inference" >>,
             terms  |-> << propRtt,
                           PER_HOP_MS.internet_gateway,
                           Weighted(PER_HOP_MS.load_balancer, weights.load_balancer),
                           Weighted(PER_HOP_MS.tls_handshake, weights.tls_handshake),
                           PER_HOP_MS.vpc_routing,
                           Weighted(PER_HOP_MS.ecs_eks_orchestration, weights.ecs_eks_orchestration),
                           Weighted(PER_HOP_MS.gpu_cold_start, weights.gpu_cold_start),
                           Weighted(PER_HOP_MS.model_gpu_load, weights.model_gpu_load),
                           Weighted(PER_HOP_MS.queueing_multitenant, weights.queueing_multitenant),
                           Weighted(PER_HOP_MS.noisy_neighbor, weights.noisy_neighbor),
                           Weighted(PER_HOP_MS.data_retrieval, weights.data_retrieval),
                           Weighted(PER_HOP_MS.longhaul_pop_or_xaz, weights.longhaul_pop_or_xaz),
                           Weighted(PER_HOP_MS.serverless_overhead, weights.serverless_overhead),
                           p.inferenceMs >>,
             total  |-> calcCloudLatency(p) ]

(***************************************************************************)
(* constants.ts : COST_DEFAULTS   (money in 1e-5 USD, percentages in %)    *)
(***************************************************************************)
COST_DEFAULTS ==
  [ cloud |->
      [ gpu_hour_usd           |-> 400000,
        egress_per_gb_usd      |-> 9000,
        storage_per_gb_month   |-> 2100,
        network_services_month |-> 15000000,
        support_sla_month      |-> 30000000,
        compliance_uplift_pct  |-> 5 ],
    edge |->
      [ lease_usd_per_kw_month       |-> 16000000,
        local_loop_month             |-> 80000000,
        onprem_storage_hw_month      |-> 30000000,
        ops_support_month            |-> 50000000,
        sw_stack_orchestration_month |-> 40000000,
        compliance_month             |-> 20000000,
        redundancy_pct               |-> 15 ] ]

\* an optional pricing field that the node omits
Undefined == -1

\* a ?? 0: an omitted rate counted as free
CoalesceZero(a, b) == IF a = Undefined THEN 0 ELSE a

\* a ?? b
Coalesce(a, b) == IF a = Undefined THEN b ELSE a

\* pct * x for a percentage given in %; every amount of the model is a
\* whole number of mills (100 units), so the division is exact
PctOf(pct, x) == (x \div 100) * pct

(***************************************************************************)
(* cost.ts                                                                 *)
(***************************************************************************)
\* an uplift computed on the usage charges only, not on the flat fees
calcCloudCostUpliftOnUsage(n, u, f) ==
  LET gpuRate == Coalesce(n.pricing.cloud_gpu_hour, COST_DEFAULTS.cloud.gpu_hour_usd)
      egressRate == Coalesce(n.pricing.egress_per_gb, COST_DEFAULTS.cloud.egress_per_gb_usd)
      usageCost == (gpuRate * u.hours) + (egressRate * u.egressGB)
                   + (COST_DEFAULTS.cloud.storage_per_gb_month * u.storageGB)
      subtotal == usageCost + COST_DEFAULTS.cloud.network_services_month
                  + COST_DEFAULTS.cloud.support_sla_month
  IN  IF f.strongCompliance
      THEN subtotal + PctOf(COST_DEFAULTS.cloud.compliance_uplift_pct, usageCost)
      ELSE subtotal

calcCloudCost(n, u, f) ==
  LET gpuRate == Coalesce(n.pricing.cloud_gpu_hour, COST_DEFAULTS.cloud.gpu_hour_usd)
      egressRate == Coalesce(n.pricing.egress_per_gb, COST_DEFAULTS.cloud.egress_per_gb_usd)
      subtotal == (gpuRate * u.hours) + (egressRate * u.egressGB)
                  + (COST_DEFAULTS.cloud.storage_per_gb_month * u.storageGB)
                  + COST_DEFAULTS.cloud.network_services_month
                  + COST_DEFAULTS.cloud.support_sla_month
  IN  IF f.strongCompliance
      THEN subtotal + PctOf(COST_DEFAULTS.cloud.compliance_uplift_pct, subtotal)
      ELSE subtotal

\* the compliance amount added after the redundancy uplift
calcEdgeCostComplianceLast(n, u, f) ==
  LET leaseRate == Coalesce(n.pricing.usd_per_kw_month, COST_DEFAULTS.edge.lease_usd_per_kw_month)
      base == (leaseRate * u.kW) + COST_DEFAULTS.edge.local_loop_month
              + COST_DEFAULTS.edge.onprem_storage_hw_month
              + COST_DEFAULTS.edge.ops_support_month
              + COST_DEFAULTS.edge.sw_stack_orchestration_month
      uplifted == base + PctOf(COST_DEFAULTS.edge.redundancy_pct, base)
  IN  IF f.strongCompliance
      THEN uplifted + COST_DEFAULTS.edge.compliance_month
      ELSE uplifted

calcEdgeCost(n, u, f) ==
  LET leaseRate == Coalesce(n.pricing.usd_per_kw_month, COST_DEFAULTS.edge.lease_usd_per_kw_month)
      base == (leaseRate * u.kW) + COST_DEFAULTS.edge.local_loop_month
              + COST_DEFAULTS.edge.onprem_storage_hw_month
              + COST_DEFAULTS.edge.ops_support_month
              + COST_DEFAULTS.edge.sw_stack_orchestration_month
      subtotal == IF f.strongCompliance
                  THEN base + COST_DEFAULTS.edge.compliance_month
                  ELSE base
  IN  subtotal + PctOf(COST_DEFAULTS.edge.redundancy_pct, subtotal)

\* The returned object, as the sequence of its keys other than `total`,
\* the values under those keys, and `total`: the node.type === 'cloud' branch
CloudCostBreakdown(n, u, f) ==
  LET gpuRate == Coalesce(n.pricing.cloud_gpu_hour, COST_DEFAULTS.cloud.gpu_hour_usd)
      egressRate == Coalesce(n.pricing.egress_per_gb, COST_DEFAULTS.cloud.egress_per_gb_usd)
      gpuCost == gpuRate * u.hours
      egressCost == egressRate * u.egressGB
      storageCost == COST_DEFAULTS.cloud.storage_per_gb_month * u.storageGB
      networkCost == COST_DEFAULTS.cloud.network_services_month
      supportCost == COST_DEFAULTS.cloud.support_sla_month
      subtotal == gpuCost + egressCost + storageCost + networkCost + supportCost
      complianceCost == IF f.strongCompliance
                        THEN PctOf(COST_DEFAULTS.cloud.compliance_uplift_pct, subtotal)
                        ELSE 0
  IN  [ keys  |-> << "gpu", "egress", "storage", "network", "support", "compliance" >>,
        terms |-> << gpuCost, egressCost, storageCost, networkCost, supportCost,
                     complianceCost >>,
        total |-> IF f.strongCompliance THEN subtotal + complianceCost ELSE subtotal ]

\* a breakdown that folds the redundancy uplift into the total without
\* returning it as a term
EdgeCostBreakdownHiddenRedundancy(n, u, f) ==
  LET leaseRate == Coalesce(n.pricing.usd_per_kw_month, COST_DEFAULTS.edge.lease_usd_per_kw_month)
      leaseCost == leaseRate * u.kW
      loopCost == COST_DEFAULTS.edge.local_loop_month
      storageCost == COST_DEFAULTS.edge.onprem_storage_hw_month
      opsCost == COST_DEFAULTS.edge.ops_support_month
      swCost == COST_DEFAULTS.edge.sw_stack_orchestration_month
      base == leaseCost + loopCost + storageCost + opsCost + swCost
      complianceCost == IF f.strongCompliance
                        THEN COST_DEFAULTS.edge.compliance_month
                        ELSE 0
      subtotal == base + complianceCost
  IN  [ keys  |-> << "lease", "loop", "storage", "ops", "software", "compliance" >>,
        terms |-> << leaseCost, loopCost, storageCost, opsCost, swCost, complianceCost >>,
        total |-> subtotal + PctOf(COST_DEFAULTS.edge.redundancy_pct, subtotal) ]

\* the else branch
EdgeCostBreakdown(n, u, f) ==
  LET leaseRate == Coalesce(n.pricing.usd_per_kw_month, COST_DEFAULTS.edge.lease_usd_per_kw_month)
      leaseCost == leaseRate * u.kW
      loopCost == COST_DEFAULTS.edge.local_loop_month
      storageCost == COST_DEFAULTS.edge.onprem_storage_hw_month
      opsCost == COST_DEFAULTS.edge.ops_support_month
      swCost == COST_DEFAULTS.edge.sw_stack_orchestration_month
      base == leaseCost + loopCost + storageCost + opsCost + swCost
      complianceCost == IF f.strongCompliance
                        THEN COST_DEFAULTS.edge.compliance_month
                        ELSE 0
      subtotal == IF f.strongCompliance THEN base + complianceCost ELSE base
      redundancyCost == PctOf(COST_DEFAULTS.edge.redundancy_pct, subtotal)
  IN  [ keys  |-> << "lease", "loop", "storage", "ops", "software", "compliance",
                     "redundancy" >>,
        terms |-> << leaseCost, loopCost, storageCost, opsCost, swCost,
                     complianceCost, redundancyCost >>,
        total |-> subtotal + redundancyCost ]

\* a breakdown that takes the cloud branch for every node
calcCostBreakdownCloudOnly(n, u, f) == CloudCostBreakdown(n, u, f)

calcCostBreakdown(n, u, f) ==
  IF n.type = "cloud"
  THEN CloudCostBreakdown(n, u, f)
  ELSE EdgeCostBreakdown(n, u, f)

\* a usage whose storage tier also follows strongCompliance
getDefaultUsageComplianceStorage(f) ==
  [ hours     |-> 730,
    egressGB  |-> IF f.highEgress THEN 10000 ELSE 1000,
    storageGB |-> IF f.needsHotStorage \/ f.strongCompliance THEN 5000 ELSE 1000,
    kW        |-> 10 ]

getDefaultUsage(f) ==
  [ hours     |-> 730,
    egressGB  |-> IF f.highEgress THEN 10000 ELSE 1000,
    storageGB |-> IF f.needsHotStorage THEN 5000 ELSE 1000,
    kW        |-> 10 ]

(***************************************************************************)
(* Inputs of the cost functions                                            *)
(***************************************************************************)
MaxHours == 744
MaxEgressGB == 12000
MaxStorageGB == 6001
MaxKW == 12
\* dearest GPU hour, in mills; dearest lease, in USD per kW and month
MaxGpuRate == 6500
MaxLeaseRate == 210

CostFlagSets ==
  [ needsHotStorage : BOOLEAN, strongCompliance : BOOLEAN, highEgress : BOOLEAN ]

\* the usage tiers of getDefaultUsage and a few other usages
Usages ==
  { getDefaultUsage(f) : f \in CostFlagSets }
  \cup { [ hours |-> 0, egressGB |-> 0, storageGB |-> 0, kW |-> 0 ],
         [ hours |-> 1, egressGB |-> 7, storageGB |-> 3, kW |-> 1 ],
         [ hours |-> MaxHours, egressGB |-> MaxEgressGB,
           storageGB |-> MaxStorageGB, kW |-> MaxKW ] }

NodeTypes == { "cloud", "colo", "gridsite" }

\* pricing a node can carry: each field present or omitted
Pricings ==
  [ cloud_gpu_hour   : { Undefined, 0, 250000, MaxGpuRate * 100 },
    egress_per_gb    : { Undefined, 12000 },
    usd_per_kw_month : { Undefined, 12000000, MaxLeaseRate * 100000 } ]

CostNodes == [ type : NodeTypes, pricing : Pricings ]

NoPricing ==
  [ cloud_gpu_hour |-> Undefined, egress_per_gb |-> Undefined,
    usd_per_kw_month |-> Undefined ]

NoCostBreakdown == [ keys |-> <<>>, terms |-> <<>>, total |-> NotComputed ]

CostIdle ==
  /\ node = [ type |-> "cloud", pricing |-> NoPricing ]
  /\ usage = [ hours |-> 0, egressGB |-> 0, storageGB |-> 0, kW |-> 0 ]
  /\ costFlags = [ needsHotStorage |-> FALSE, strongCompliance |-> FALSE,
                   highEgress |-> FALSE ]
  /\ cloudCost = NotComputed
  /\ edgeCost = NotComputed
  /\ costBreakdown = NoCostBreakdown

(***************************************************************************)
(* Exact products of lengths.  A length is below 2^26 half centimetres     *)
(* (335 km); a product of two lengths is kept as <<hi, lo>>, standing for  *)
(* hi * 2^26 + lo with 0 <= lo < 2^26, so that no intermediate value       *)
(* leaves the 32-bit integers.                                             *)
(***************************************************************************)
WideDigit == 8192
WideBase == WideDigit * WideDigit

Abs(x) == IF x < 0 THEN -x ELSE x
Sign(x) == IF x < 0 THEN -1 ELSE IF x = 0 THEN 0 ELSE 1

\* |a| * |b|
WideMul(a, b) ==
  LET ah == Abs(a) \div WideDigit
      al == Abs(a) % WideDigit
      bh == Abs(b) \div WideDigit
      bl == Abs(b) % WideDigit
      p0 == al * bl
      p1 == ah * bl + al * bh + (p0 \div WideDigit)
  IN  << ah * bh + (p1 \div WideDigit), (p1 % WideDigit) * WideDigit + (p0 % WideDigit) >>

WideAdd(u, v) ==
  << u[1] + v[1] + ((u[2] + v[2]) \div WideBase), (u[2] + v[2]) % WideBase >>

WideLess(u, v) == u[1] < v[1] \/ (u[1] = v[1] /\ u[2] < v[2])
WideLeq(u, v) == u = v \/ WideLess(u, v)

\* a * b < c * d, signs included
ProductLess(a, b, c, d) ==
  LET sl == Sign(a) * Sign(b)
      sr == Sign(c) * Sign(d)
  IN  IF sl # sr THEN sl < sr
      ELSE IF sl = 0 THEN FALSE
      ELSE IF sl > 0 THEN WideLess(WideMul(a, b), WideMul(c, d))
      ELSE WideLess(WideMul(c, d), WideMul(a, b))

(***************************************************************************)
(* constants.ts : LATENCY_RADIUS_CONFIG (radius in metres), LATENCY_COLORS *)
(***************************************************************************)
LATENCY_RADIUS_CONFIG ==
  (5 :> 1207) @@ (10 :> 3218) @@ (15 :> 9724) @@ (20 :> 28163) @@ (25 :> 56327)

LATENCY_COLORS ==
  (5 :> "#00ff00") @@ (10 :> "#ffff00") @@ (15 :> "#ffa500") @@ (20 :> "#ff6600")
  @@ (25 :> "#ff0000")

(***************************************************************************)
(* latency-radius.ts                                                       *)
(***************************************************************************)
\* The 65-vertex geodesic ring around the centre, kept as the parameters
\* that determine it.
createLatencyCircle(centerLat, centerLon, radiusKm) ==
  [ type |-> "Polygon", center |-> << centerLon, centerLat >>,
    radiusKm |-> radiusKm, steps |-> 64 ]

\* a lookup that falls back to the 10 ms radius and colour
createLatencyRingFeaturesWithDefault(nodes, thresholdMs, multiplier) ==
  LET known == thresholdMs \in DOMAIN LATENCY_RADIUS_CONFIG
      radius == (IF known THEN LATENCY_RADIUS_CONFIG[thresholdMs]
                 ELSE LATENCY_RADIUS_CONFIG[10]) * multiplier
      color == IF known THEN LATENCY_COLORS[thresholdMs] ELSE LATENCY_COLORS[10]
  IN  [ i \in 1..Len(nodes) |->
          [ type |-> "Feature",
            geometry |-> createLatencyCircle(nodes[i].lat, nodes[i].lon, radius),
            properties |->
              [ id |-> << nodes[i].id, "latency-ring", thresholdMs >>,
                nodeId |-> nodes[i].id,
                nodeName |-> nodes[i].name,
                rtt |-> thresholdMs,
                radius |-> radius,
                color |-> color,
                type |-> "latency-ring" ] ] ]

\* the `features` array of the returned FeatureCollection
createLatencyRingFeatures(nodes, thresholdMs, multiplier) ==
  LET noBaseRadius == \/ thresholdMs \notin DOMAIN LATENCY_RADIUS_CONFIG
                      \/ LATENCY_RADIUS_CONFIG[thresholdMs] = 0
      noColor == \/ thresholdMs \notin DOMAIN LATENCY_COLORS
                 \/ LATENCY_COLORS[thresholdMs] = ""
  IN  IF noBaseRadius \/ noColor
      THEN << >>
      ELSE LET radius == LATENCY_RADIUS_CONFIG[thresholdMs] * multiplier
               color == LATENCY_COLORS[thresholdMs]
           IN  [ i \in 1..Len(nodes) |->
                   [ type |-> "Feature",
                     geometry |-> createLatencyCircle(nodes[i].lat, nodes[i].lon, radius),
                     properties |->
                       [ id |-> << nodes[i].id, "latency-ring", thresholdMs >>,
                         nodeId |-> nodes[i].id,
                         nodeName |-> nodes[i].name,
                         rtt |-> thresholdMs,
                         radius |-> radius,
                         color |-> color,
                         type |-> "latency-ring" ] ] ]

(***************************************************************************)
(* Coordinates.  The planner's metric is flat: 111 km per degree on both   *)
(* axes.  A coordinate is a whole number of half centimetres of that       *)
(* metric; latitudes are counted from the equator, longitudes from 100 W   *)
(* (the planner only subtracts and compares longitudes).                   *)
(***************************************************************************)
UnitsPerKm == 200000
KmPerDegree == 111
UnitsPerDegree == KmPerDegree * UnitsPerKm

\* a latitude / longitude given in 1e-4 degrees
Latitude(d4) == d4 * (UnitsPerDegree \div 10000)
Longitude(d4) == (d4 + 1000000) * (UnitsPerDegree \div 10000)

\* constants.ts : DFW_CENTER, as [lon, lat]
DFW_CENTER == << Longitude(-967970), Latitude(327767) >>

Infinity == 2000000000

\* a polygon state that is null, or an array of [lon, lat] points
Null == [ isNull |-> TRUE, points |-> << >> ]
Polygon(points) == [ isNull |-> FALSE, points |-> points ]

NoMouse == << >>

(***************************************************************************)
(* page.tsx : helpers of Home                                              *)
(***************************************************************************)
Min(a, b) == IF a < b THEN a ELSE b
Max(a, b) == IF a > b THEN a ELSE b

RECURSIVE FoldBounds(_, _)
FoldBounds(polygon, acc) ==
  IF polygon = << >> THEN acc
  ELSE LET lon == Head(polygon)[1]
           lat == Head(polygon)[2]
       IN  FoldBounds(Tail(polygon),
                      [ west  |-> Min(acc.west, lon), east  |-> Max(acc.east, lon),
                        south |-> Min(acc.south, lat), north |-> Max(acc.north, lat) ])

getPolygonBounds(polygon) ==
  FoldBounds(polygon, [ west |-> Infinity, east |-> -Infinity,
                        south |-> Infinity, north |-> -Infinity ])

\* a ray cast over the edges between consecutive vertices only, without the
\* edge that closes the polygon from its last vertex to its first
isPointInPolygonOpen(point, polygon) ==
  LET x == point[1]
      y == point[2]
      n == Len(polygon)
      Crosses(i) ==
        LET xi == polygon[i][1]
            yi == polygon[i][2]
            xj == polygon[i - 1][1]
            yj == polygon[i - 1][2]
        IN  /\ (yi > y) # (yj > y)
            /\ IF yj - yi > 0
               THEN ProductLess(x - xi, yj - yi, xj - xi, y - yi)
               ELSE ProductLess(xj - xi, y - yi, x - xi, yj - yi)
  IN  Cardinality({ i \in 2..n : Crosses(i) }) % 2 = 1

\* ray casting; x < (xj - xi) * (y - yi) / (yj - yi) + xi is decided without
\* the division, by the sign of yj - yi
isPointInPolygon(point, polygon) ==
  LET x == point[1]
      y == point[2]
      n == Len(polygon)
      Crosses(i) ==
        LET j  == IF i = 1 THEN n ELSE i - 1
            xi == polygon[i][1]
            yi == polygon[i][2]
            xj == polygon[j][1]
            yj == polygon[j][2]
        IN  /\ (yi > y) # (yj > y)
            /\ IF yj - yi > 0
               THEN ProductLess(x - xi, yj - yi, xj - xi, y - yi)
               ELSE ProductLess(xj - xi, y - yi, x - xi, yj - yi)
  IN  Cardinality({ i \in 1..n : Crosses(i) }) % 2 = 1

\* a lookup without a fallback: a threshold the table lacks has radius 0
getRadiusForLatencyNoDefault(latencyMs, multiplier) ==
  LET radiusConfig ==
        (5 :> 1207) @@ (10 :> 3218) @@ (15 :> 9724) @@ (20 :> 28163) @@ (25 :> 56327)
      baseRadius == IF latencyMs \in DOMAIN radiusConfig
                    THEN radiusConfig[latencyMs]
                    ELSE 0
  IN  baseRadius * multiplier

\* a lookup that falls back to the 15 ms radius
getRadiusForLatencyDefault15(latencyMs, multiplier) ==
  LET radiusConfig ==
        (5 :> 1207) @@ (10 :> 3218) @@ (15 :> 9724) @@ (20 :> 28163) @@ (25 :> 56327)
      baseRadius == IF latencyMs \in DOMAIN radiusConfig /\ radiusConfig[latencyMs] # 0
                    THEN radiusConfig[latencyMs]
                    ELSE 9724
  IN  baseRadius * multiplier

\* radius in metres
getRadiusForLatency(latencyMs, multiplier) ==
  LET radiusConfig ==
        (5 :> 1207) @@ (10 :> 3218) @@ (15 :> 9724) @@ (20 :> 28163) @@ (25 :> 56327)
      baseRadius == IF latencyMs \in DOMAIN radiusConfig /\ radiusConfig[latencyMs] # 0
                    THEN radiusConfig[latencyMs]
                    ELSE 3218
  IN  baseRadius * multiplier

\* Dallas-Fort Worth area bounds
DFWBounds ==
  [ north |-> Latitude(333000), south |-> Latitude(326000),
    east |-> Longitude(-965000), west |-> Longitude(-974000) ]

\* 1.73, in hundredths
HEX_SPACING == 173

\* a spacing of one diameter
GridSpacingDiameter(radiusKm) == radiusKm * 2 * (UnitsPerKm \div 1000)

\* radiusKm * 1.73, for a radius in metres, in half centimetres
GridSpacing(radiusKm) == radiusKm * HEX_SPACING * (UnitsPerKm \div 100000)

\* spacing / 111 degrees: a degree is 111 km, so the number of coordinate
\* units in the step is the number of half centimetres in the spacing
SpacingDegrees(spacing) == spacing * (UnitsPerDegree \div (KmPerDegree * UnitsPerKm))

\* the region the fill sweeps
FillBounds(useCustomShape, polygon) ==
  IF useCustomShape /\ ~polygon.isNull
  THEN getPolygonBounds(polygon.points)
  ELSE DFWBounds

\* the points the two sweep loops visit, row by row, and the points they keep
SweepRows(bounds, step) ==
  IF bounds.south > bounds.north THEN 0 ELSE (bounds.north - bounds.south) \div step + 1
SweepCols(bounds, step) ==
  IF bounds.west > bounds.east THEN 0 ELSE (bounds.east - bounds.west) \div step + 1

\* Math.floor((lat - bounds.south) / spacingDegrees) in the k-th row.  The
\* latitude of row k is south plus k steps, so the exact quotient is k; the
\* double-precision quotient of the accumulated latitude lies just below k
\* for the radii (metres) listed here, at the latitudes of the modelled
\* regions (32.6 and 32.7 degrees), and the floor is then k - 1.
FloorSlipRadii == { 9724, 19448, 28163 }
RowIndex(radiusKm, k) ==
  IF k > 0 /\ radiusKm \in FloorSlipRadii THEN k - 1 ELSE k

SweepPoint(bounds, step, radiusKm, cols, i) ==
  LET k == (i - 1) \div cols
      lat == bounds.south + k * step
      lon == bounds.west + ((i - 1) % cols) * step
      offsetLon == (RowIndex(radiusKm, k) % 2) * (step \div 2)
  IN  [ lat |-> lat, lon |-> lon + offsetLon ]

FillCandidates(bounds, step, radiusKm, useCustomShape, polygon) ==
  LET cols == SweepCols(bounds, step)
      total == SweepRows(bounds, step) * cols
      Keep(p) ==
        /\ p.lon >= bounds.west
        /\ p.lon <= bounds.east
        /\ (useCustomShape /\ ~polygon.isNull)
             => isPointInPolygon(<< p.lon, p.lat >>, polygon.points)
  IN  SelectSeq([ i \in 1..total |-> SweepPoint(bounds, step, radiusKm, cols, i) ], Keep)

\* the Node built for the count-th kept point (count starts at 0)
FillGridSite(latencyThreshold, count, p) ==
  [ id       |-> << "fill-gridsite", latencyThreshold, count >>,
    name     |-> << "GridSite", latencyThreshold, count + 1 >>,
    type     |-> "gridsite",
    operator |-> "GridSite",
    lat      |-> p.lat,
    lon      |-> p.lon,
    pricing  |-> [ usd_per_kw_month |-> 12000000, rack_usd_month |-> 90000000 ],
    vacancy  |-> "high" ]

FillGridSites(latencyThreshold, useCustomShape, polygon, multiplier) ==
  LET bounds == FillBounds(useCustomShape, polygon)
      radiusKm == getRadiusForLatency(latencyThreshold, multiplier)
      spacingDegrees == SpacingDegrees(GridSpacing(radiusKm))
      kept == FillCandidates(bounds, spacingDegrees, radiusKm, useCustomShape, polygon)
  IN  [ c \in 1..Len(kept) |-> FillGridSite(latencyThreshold, c - 1, kept[c]) ]

(***************************************************************************)
(* Inputs of the latency functions                                         *)
(***************************************************************************)
MaxDistanceKm == 2000
MaxInferenceMs == 500000
MaxWeight == 250

Distances == { 0, 1, 37, 400, MaxDistanceKm }
InferenceTimes == { 0, 5000, 50000, MaxInferenceMs }
WeightValues == { 0, 1, 50, 100, MaxWeight }

UniformWeights(v) == [ n \in WeightNames |-> v ]
\* every vector that is uniform, or uniform 1.0 / 0 with one component changed
WeightVectors ==
  { UniformWeights(v) : v \in WeightValues }
  \cup { [ UniformWeights(100) EXCEPT ![n] = v ] : n \in WeightNames, v \in { 0, 30 } }
  \cup { [ UniformWeights(0) EXCEPT ![n] = 100 ] : n \in WeightNames }

LatencyInputs ==
  [ distanceKm : Distances, weights : WeightVectors, inferenceMs : InferenceTimes ]

NoBreakdown == [ isEdge |-> FALSE, keys |-> <<>>, terms |-> <<>>, total |-> NotComputed ]

(***************************************************************************)
(* Inputs of createLatencyRingFeatures                                     *)
(***************************************************************************)
MaxRingNodes == 2
MaxThreshold == 30

RingNodePool ==
  { [ id |-> "dal-colo-1", name |-> "Colo 1",
      lat |-> Latitude(327767), lon |-> Longitude(-967970) ],
    [ id |-> "aws-dfw", name |-> "Cloud 1",
      lat |-> Latitude(329000), lon |-> Longitude(-970000) ],
    [ id |-> << "gridsite", 1 >>, name |-> "GridSite Container (user-placed)",
      lat |-> Latitude(326000), lon |-> Longitude(-965000) ] }

RingNodeLists == UNION { [ 1..n -> RingNodePool ] : n \in 0..MaxRingNodes }
RingThresholds == { 0, 5, 7, 10, 15, 20, 25, MaxThreshold }
RingMultipliers == { 0, 1, 2 }

NoRingFeatures == [ computed |-> FALSE, features |-> << >> ]

RingIdle ==
  /\ ringNodes = << >>
  /\ ringMode = [ threshold |-> 10, radiusMultiplier |-> 1 ]
  /\ ringFeatures = NoRingFeatures

(***************************************************************************)
(* The store.  An id is a tuple: << name >> for a catalog node,            *)
(* << "gridsite", Date.now() >> for a manually placed GridSite and         *)
(* << "fill-gridsite", threshold, count >> for one placed by a fill.       *)
(* A nullable string is << >> (null) or << value >>.                       *)
(***************************************************************************)
\* seed/nodes.json: two nodes on the map and one without coordinates
Catalog ==
  << [ id |-> << "dal-colo-1" >>, name |-> << "Colo 1" >>, type |-> "colo",
       operator |-> "Equinix", lat |-> Latitude(327767), lon |-> Longitude(-967970),
       pricing |-> [ usd_per_kw_month |-> 18000000, rack_usd_month |-> 120000000 ],
       vacancy |-> "low" ],
     [ id |-> << "aws-dfw" >>, name |-> << "Cloud 1" >>, type |-> "cloud",
       operator |-> "AWS", lat |-> Latitude(329000), lon |-> Longitude(-970000),
       pricing |-> [ usd_per_kw_month |-> Undefined, rack_usd_month |-> Undefined ],
       vacancy |-> "high" ],
     [ id |-> << "gcp-central" >>, name |-> << "Cloud 2" >>, type |-> "cloud",
       operator |-> "Google Cloud", lat |-> Undefined, lon |-> Undefined,
       pricing |-> [ usd_per_kw_month |-> Undefined, rack_usd_month |-> Undefined ],
       vacancy |-> "medium" ] >>

NoFilters == [ type |-> << >>, operator |-> << >>, vacancy |-> << >> ]

NoPointOfUse == [ isNull |-> TRUE, lat |-> 0, lon |-> 0, address |-> << >> ]

NoWorkload == << >>

InitialLatencyRingMode == [ enabled |-> FALSE, threshold |-> 10, radiusMultiplier |-> 1 ]

\* sequence helpers: Array.prototype.includes and Array.prototype.filter
Includes(list, x) == \E i \in 1..Len(list) : list[i] = x

Without(list, x) == SelectSeq(list, LAMBDA y : y # x)

\* a store that forgets the earlier GridSites
addUserGridSiteReplacing(sites, site) == << site >>

\* addUserGridSite applied to the list of GridSites
addUserGridSite(sites, site) == Append(sites, site)

\* new.forEach(site => addUserGridSite(site)): the calls for the first half
\* of `new`, then those for the second half; each call acts on the list the
\* calls before it have left
RECURSIVE AddEach(_, _)
AddEach(sites, new) ==
  IF Len(sites) + Len(new) = Len(sites) THEN sites
  ELSE IF Len(new) = 1 THEN addUserGridSite(sites, new[1])
  ELSE AddEach(AddEach(sites, SubSeq(new, 1, Len(new) \div 2)),
               SubSeq(new, (Len(new) \div 2) + 1, Len(new)))

\* removeUserGridSite: its effect on userGridSites
removeUserGridSite(sites, nodeId) == SelectSeq(sites, LAMBDA site : site.id # nodeId)

\* a removal that clears the whole selection
clearSelection(selection, nodeId) == << >>

\* removeUserGridSite: its effect on selectedNodes
removeFromSelection(selection, nodeId) == Without(selection, nodeId)

\* toggleNodeSelection applied to selectedNodes
toggleNodeSelection(selection, nodeId) ==
  IF Includes(selection, nodeId)
  THEN Without(selection, nodeId)
  ELSE Append(selection, nodeId)

\* getFilteredNodes
getFilteredNodes(catalog, f, sites) ==
  SelectSeq(catalog \o sites, LAMBDA n :
    /\ (Len(f.type) > 0 => Includes(f.type, n.type))
    /\ (Len(f.operator) > 0 => Includes(f.operator, n.operator))
    /\ (Len(f.vacancy) > 0 => Includes(f.vacancy, n.vacancy)))

\* MapCanvas, node effect: the nodes handed to the 'nodes' source
NodesToShow(catalog, f, sites, deleteMode) ==
  LET filteredNodes == getFilteredNodes(catalog, f, sites)
      onMapNodes == SelectSeq(filteredNodes,
                              LAMBDA n : n.lat # Undefined /\ n.lon # Undefined)
      allNodes == onMapNodes \o sites
  IN  IF deleteMode
      THEN SelectSeq(allNodes, LAMBDA n : n.type = "gridsite")
      ELSE allNodes

\* the 'nodes' source: its features, the filters getFilteredNodes read and
\* the dependencies of the effect run that set it
NoNodesSource ==
  [ created |-> FALSE, filters |-> NoFilters, deps |-> << >>, features |-> << >> ]

NoDeleteAll == [ called |-> FALSE, removed |-> 0, selectedRemoved |-> FALSE ]

NoPointInPolygon ==
  [ called |-> FALSE, point |-> << >>, polygon |-> << >>, inside |-> FALSE ]

NoNodeClickHandler == [ registered |-> FALSE, isDeleteMode |-> FALSE, nodes |-> << >> ]

\* no URL has been shared or opened
NoSender ==
  [ selectedNodes |-> << >>, pointOfUse |-> NoPointOfUse, selectedWorkload |-> NoWorkload,
    filters |-> NoFilters, userGridSites |-> << >>, compareMode |-> FALSE,
    latencyRingMode |-> InitialLatencyRingMode ]

NoUrl == << >>

NotDecoded == [ isDecoded |-> FALSE, has |-> { }, state |-> NoSender ]

UrlIdle ==
  /\ sender = NoSender
  /\ url = NoUrl
  /\ decoded = NotDecoded
  /\ mounted = FALSE

PageInit ==
  /\ storeNodes = Catalog
  /\ selectedNodes = << >>
  /\ pointOfUse = NoPointOfUse
  /\ selectedWorkload = NoWorkload
  /\ filters = NoFilters
  /\ compareMode = FALSE
  /\ latencyRingMode = InitialLatencyRingMode
  /\ isPlacingGridSite = FALSE
  /\ isPlacingPointOfUse = FALSE
  /\ isDeleteMode = FALSE
  /\ now = 0
  /\ nodesSource = NoNodesSource
  /\ nodeClickHandler = NoNodeClickHandler
  /\ deleteAll = NoDeleteAll

(***************************************************************************)
(* Initial state of the store, of Home and of MapCanvas                    *)
(***************************************************************************)
NoFill ==
  [ called |-> FALSE, latencyThreshold |-> 0, useCustomShape |-> FALSE,
    calculateOnly |-> FALSE, polygon |-> Null, bounds |-> DFWBounds,
    multiplier |-> 1, radiusKm |-> 0, spacingDegrees |-> 0, gridsites |-> << >>,
    alerted |-> NotComputed ]

HomeInit ==
  /\ userGridSites = << >>
  /\ showFillRegionModal = FALSE
  /\ isDrawingMode = FALSE
  /\ drawnPolygon = Null
  /\ showLatencyModal = FALSE
  /\ radiusMultiplier = 1
  /\ calculateOnlyMode = FALSE
  /\ currentPolygon = << >>
  /\ mousePosition = NoMouse
  /\ pendingPolygons = << >>
  /\ fill = NoFill
  /\ PageInit

PolygonIdle == pointInPolygon = NoPointInPolygon

(***************************************************************************)
(* PowerOverlay.ts : the power layers of the map                           *)
(***************************************************************************)
\* the keys of LAYER_IDS
PowerLayerTypes == { "transmission", "substations", "plants" }

PowerEvents == { "click", "mouseenter", "mouseleave" }

\* a map without power layers.  `handlers` is, for every layer and event, the
\* set of the handlers attached with map.on, each named by a number;
\* `handlerStorage` is the number of the handlers stored for the map,
\* 0 when none is stored
NoPowerMap ==
  [ styleLoaded    |-> TRUE,
    layers         |-> [ l \in PowerLayerTypes |->
                           [ exists |-> FALSE, visibility |-> "visible" ] ],
    handlers       |-> [ l \in PowerLayerTypes |-> [ e \in PowerEvents |-> { } ] ],
    handlerStorage |-> 0 ]

\* the smallest number that names no attached handler
NewHandler(attached) ==
  CHOOSE h \in 1..(Cardinality(attached) + 1) : h \notin attached

\* a setup that attaches new handlers and removes none
setupClickHandlersWithoutRemoval(m) ==
  LET attached == UNION { m.handlers[l][e] : l \in PowerLayerTypes, e \in PowerEvents }
      new == NewHandler(attached)
  IN  [ m EXCEPT
          !.handlers = [ l \in PowerLayerTypes |->
                           [ e \in PowerEvents |-> m.handlers[l][e] \cup { new } ] ],
          !.handlerStorage = new ]

\* map.off for each stored handler, then map.on for nine new handlers, which
\* are stored
setupClickHandlers(m) ==
  LET removed == [ l \in PowerLayerTypes |->
                     [ e \in PowerEvents |-> m.handlers[l][e] \ { m.handlerStorage } ] ]
      attached == UNION { removed[l][e] : l \in PowerLayerTypes, e \in PowerEvents }
      new == NewHandler(attached)
  IN  [ m EXCEPT
          !.handlers = [ l \in PowerLayerTypes |->
                           [ e \in PowerEvents |-> removed[l][e] \cup { new } ] ],
          !.handlerStorage = new ]

\* a style that is not loaded defers the call to 'style.load'; the map keeps
\* the style it was created with, so the deferred call does not run
registerPowerLayers(m) ==
  IF ~m.styleLoaded THEN m
  ELSE LET registered(l) ==
             IF ~m.layers[l].exists
             THEN [ exists |-> TRUE, visibility |-> "visible" ]
             ELSE IF l = "transmission"
                  THEN IF m.layers[l].visibility # "none"
                       THEN [ m.layers[l] EXCEPT !.visibility = "visible" ]
                       ELSE m.layers[l]
                  ELSE [ m.layers[l] EXCEPT !.visibility = "visible" ]
       IN  setupClickHandlers([ m EXCEPT !.layers = [ l \in PowerLayerTypes |-> registered(l) ] ])

unregisterPowerLayers(m) ==
  [ m EXCEPT !.layers = [ l \in PowerLayerTypes |->
                            IF m.layers[l].exists
                            THEN [ m.layers[l] EXCEPT !.visibility = "none" ]
                            ELSE m.layers[l] ] ]

\* a call that hides a layer and never shows one
setPowerLayerVisibilityHideOnly(m, layerType, visible) ==
  IF ~m.styleLoaded THEN m
  ELSE LET registered == IF m.layers[layerType].exists THEN m ELSE registerPowerLayers(m)
       IN  IF registered.layers[layerType].exists /\ ~visible
           THEN [ registered EXCEPT !.layers[layerType].visibility = "none" ]
           ELSE registered

\* the retry after 100 ms does the same when the layer exists by then
setPowerLayerVisibility(m, layerType, visible) ==
  IF ~m.styleLoaded THEN m
  ELSE LET registered == IF m.layers[layerType].exists THEN m ELSE registerPowerLayers(m)
       IN  IF registered.layers[layerType].exists
           THEN [ registered EXCEPT !.layers[layerType].visibility =
                                      IF visible THEN "visible" ELSE "none" ]
           ELSE registered

NoOverlayEffect ==
  [ pending |-> FALSE, processed |-> FALSE, registered |-> FALSE, hidden |-> FALSE ]

PowerIdle ==
  /\ powerOverlay = [ enabled |-> FALSE,
                      subLayers |-> [ l \in PowerLayerTypes |-> TRUE ] ]
  /\ powerMap = NoPowerMap
  /\ overlayEffect = NoOverlayEffect

AppInit ==
  /\ HomeInit
  /\ UrlIdle
  /\ PolygonIdle
  /\ PowerIdle

LatencyIdle ==
  /\ params = [ distanceKm |-> 0, weights |-> UniformWeights(0), inferenceMs |-> 0 ]
  /\ cloudLatency = NotComputed
  /\ edgeLatency = NotComputed
  /\ latencyBreakdown = NoBreakdown

InitLatency ==
  /\ params \in LatencyInputs
  /\ cloudLatency = NotComputed
  /\ edgeLatency = NotComputed
  /\ latencyBreakdown = NoBreakdown
  /\ CostIdle
  /\ RingIdle
  /\ AppInit

\* CompareModal: node.type === 'cloud' branch of calculateLatency
CallCalcCloudLatency ==
  /\ cloudLatency' = calcCloudLatency(params)
  /\ UNCHANGED <<params, edgeLatency, latencyBreakdown, costVars, ringVars, appVars>>

\* CompareModal: else branch of calculateLatency
CallCalcEdgeLatency ==
  /\ edgeLatency' = calcEdgeLatency([distanceKm |-> params.distanceKm,
                                     inferenceMs |-> params.inferenceMs])
  /\ UNCHANGED <<params, cloudLatency, latencyBreakdown, costVars, ringVars, appVars>>

\* CompareModal: latency breakdown rows
CallCalcLatencyBreakdown(isEdge) ==
  /\ latencyBreakdown' = calcLatencyBreakdown(params, isEdge)
  /\ UNCHANGED <<params, cloudLatency, edgeLatency, costVars, ringVars, appVars>>

NextLatency ==
  \/ CallCalcCloudLatency
  \/ CallCalcEdgeLatency
  \/ \E isEdge \in BOOLEAN : CallCalcLatencyBreakdown(isEdge)

SpecLatency == InitLatency /\ [][NextLatency]_vars

(***************************************************************************)
(* Cost functions applied to every node, usage and flag combination        *)
(***************************************************************************)
InitCost ==
  /\ node \in CostNodes
  /\ usage \in Usages
  /\ costFlags \in CostFlagSets
  /\ cloudCost = NotComputed
  /\ edgeCost = NotComputed
  /\ costBreakdown = NoCostBreakdown
  /\ LatencyIdle
  /\ RingIdle
  /\ AppInit

\* CompareModal calculateCost: node.type === 'cloud' branch
CallCalcCloudCost ==
  /\ node.type = "cloud"
  /\ cloudCost' = calcCloudCost(node, usage, costFlags)
  /\ UNCHANGED <<node, usage, costFlags, edgeCost, costBreakdown, latencyVars, ringVars, appVars>>

\* CompareModal calculateCost: else branch
CallCalcEdgeCost ==
  /\ node.type # "cloud"
  /\ edgeCost' = calcEdgeCost(node, usage, costFlags)
  /\ UNCHANGED <<node, usage, costFlags, cloudCost, costBreakdown, latencyVars, ringVars, appVars>>

\* CompareModal: breakdown of every compared node
CallCalcCostBreakdown ==
  /\ costBreakdown' = calcCostBreakdown(node, usage, costFlags)
  /\ UNCHANGED <<node, usage, costFlags, cloudCost, edgeCost, latencyVars, ringVars, appVars>>

NextCost ==
  \/ CallCalcCloudCost
  \/ CallCalcEdgeCost
  \/ CallCalcCostBreakdown

SpecCost == InitCost /\ [][NextCost]_vars

(***************************************************************************)
(* CompareModal: the totals used for ranking and the breakdowns, for the   *)
(* latency inputs or for the cost inputs of one compared node              *)
(***************************************************************************)
InitTotals ==
  \/ InitLatency
  \/ InitCost

NextTotals ==
  \/ NextLatency
  \/ NextCost

SpecTotals == InitTotals /\ [][NextTotals]_vars

(***************************************************************************)
(* CompareModal : the cost tab for one compared node and the selected      *)
(* workload                                                                *)
(***************************************************************************)
NoUsage == [ hours |-> 0, egressGB |-> 0, storageGB |-> 0, kW |-> 0 ]

InitCompare ==
  /\ node \in CostNodes
  /\ usage = NoUsage
  /\ costFlags \in CostFlagSets
  /\ cloudCost = NotComputed
  /\ edgeCost = NotComputed
  /\ costBreakdown = NoCostBreakdown
  /\ LatencyIdle
  /\ RingIdle
  /\ AppInit

\* CostComparison rendered: the usage of the workload's flags, then the cost
\* and the breakdown of the node under that usage
CostComparison ==
  /\ usage' = getDefaultUsage(costFlags)
  /\ cloudCost' = IF node.type = "cloud"
                  THEN calcCloudCost(node, usage', costFlags)
                  ELSE cloudCost
  /\ edgeCost' = IF node.type = "cloud"
                 THEN edgeCost
                 ELSE calcEdgeCost(node, usage', costFlags)
  /\ costBreakdown' = calcCostBreakdown(node, usage', costFlags)
  /\ UNCHANGED <<node, costFlags, latencyVars, ringVars, appVars>>

\* WorkloadSelector: another workload, with its own cost flags, is selected
SelectWorkload(f) ==
  /\ f # costFlags
  /\ costFlags' = f
  /\ UNCHANGED <<node, usage, cloudCost, edgeCost, costBreakdown,
                 latencyVars, ringVars, appVars>>

NextCompare ==
  \/ CostComparison
  \/ \E f \in CostFlagSets : SelectWorkload(f)

SpecCompare == InitCompare /\ [][NextCompare]_vars

(***************************************************************************)
(* createLatencyRingFeatures applied to node lists, thresholds and         *)
(* multipliers                                                             *)
(***************************************************************************)
InitRings ==
  /\ ringNodes \in RingNodeLists
  /\ ringMode \in [ threshold : RingThresholds, radiusMultiplier : RingMultipliers ]
  /\ ringFeatures = NoRingFeatures
  /\ LatencyIdle
  /\ CostIdle
  /\ AppInit

\* MapCanvas: latencyRingMode.enabled branch of the node effect
CallCreateLatencyRingFeatures ==
  /\ ringFeatures' =
       [ computed |-> TRUE,
         features |-> createLatencyRingFeatures(ringNodes, ringMode.threshold,
                                                ringMode.radiusMultiplier) ]
  /\ UNCHANGED <<ringNodes, ringMode, latencyVars, costVars, appVars>>

NextRings == CallCreateLatencyRingFeatures

SpecRings == InitRings /\ [][NextRings]_vars

(***************************************************************************)
(* page.tsx : Home, with the polygon drawing of MapCanvas                  *)
(***************************************************************************)
\* points the sweep may visit in one fill, GridSites the store may hold,
\* fills the store may hold the nodes of, vertices of a drawn polygon,
\* queued setDrawnPolygon calls
MaxSweep == 300
MaxGridSites == 64
MaxFills == 2
MaxPolygonPoints == 3
MaxPending == 1

\* the number of region fills that left nodes in a list of GridSites:
\* every fill numbers its nodes from 0
FillsIn(sites) ==
  Cardinality({ i \in 1..Len(sites) :
                  sites[i].id[1] = "fill-gridsite" /\ sites[i].id[3] = 0 })

\* thresholds passed to handleFillRegion: the four the modal buttons pass,
\* the remaining key of the table, and a key the table does not have
ButtonThresholds == { 5, 10, 15, 20 }
FillThresholds == ButtonThresholds \cup { 25, 7 }

\* positions of the mouse over the map, as [lon, lat]
MousePositions ==
  { << Longitude(-970000), Latitude(327000) >>,
    << Longitude(-968000), Latitude(327000) >>,
    << Longitude(-968700), Latitude(329000) >> }

\* both modals are full-screen overlays above the page
NoModal == ~showFillRegionModal /\ ~showLatencyModal

OpenFillRegionModal ==
  /\ NoModal
  /\ showFillRegionModal' = TRUE
  /\ UNCHANGED <<latencyVars, costVars, ringVars>>
  /\ UNCHANGED pageVars
  /\ UNCHANGED <<storeVars, isDrawingMode, drawnPolygon, showLatencyModal,
                 radiusMultiplier, calculateOnlyMode, canvasVars, fill>>

CancelFillRegionModal ==
  /\ showFillRegionModal
  /\ showFillRegionModal' = FALSE
  /\ UNCHANGED <<latencyVars, costVars, ringVars>>
  /\ UNCHANGED pageVars
  /\ UNCHANGED <<storeVars, isDrawingMode, drawnPolygon, showLatencyModal,
                 radiusMultiplier, calculateOnlyMode, canvasVars, fill>>

setRadiusMultiplier(m) ==
  /\ showFillRegionModal \/ showLatencyModal
  /\ radiusMultiplier' = m
  /\ UNCHANGED <<latencyVars, costVars, ringVars>>
  /\ UNCHANGED pageVars
  /\ UNCHANGED <<storeVars, showFillRegionModal, isDrawingMode, drawnPolygon,
                 showLatencyModal, calculateOnlyMode, canvasVars, fill>>

setCalculateOnlyMode(b) ==
  /\ showFillRegionModal \/ showLatencyModal
  /\ calculateOnlyMode' = b
  /\ UNCHANGED <<latencyVars, costVars, ringVars>>
  /\ UNCHANGED pageVars
  /\ UNCHANGED <<storeVars, showFillRegionModal, isDrawingMode, drawnPolygon,
                 showLatencyModal, radiusMultiplier, canvasVars, fill>>

handleFillRegion(latencyThreshold, useCustomShape, calculateOnly) ==
  LET bounds == FillBounds(useCustomShape, drawnPolygon)
      radiusKm == getRadiusForLatency(latencyThreshold, radiusMultiplier)
      spacingDegrees == SpacingDegrees(GridSpacing(radiusKm))
  IN  /\ SweepRows(bounds, spacingDegrees) * SweepCols(bounds, spacingDegrees) <= MaxSweep
      /\ LET gridsites == FillGridSites(latencyThreshold, useCustomShape, drawnPolygon,
                                        radiusMultiplier)
         IN  /\ calculateOnly
                 \/ /\ Len(userGridSites) + Len(gridsites) <= MaxGridSites
                    /\ FillsIn(userGridSites) < MaxFills
             /\ userGridSites' = IF calculateOnly THEN userGridSites
                                 ELSE AddEach(userGridSites, gridsites)
             /\ fill' = [ called |-> TRUE,
                          latencyThreshold |-> latencyThreshold,
                          useCustomShape |-> useCustomShape,
                          calculateOnly |-> calculateOnly,
                          polygon |-> drawnPolygon,
                          bounds |-> bounds,
                          multiplier |-> radiusMultiplier,
                          radiusKm |-> radiusKm,
                          spacingDegrees |-> spacingDegrees,
                          gridsites |-> gridsites,
                          \* the count shown by alert(...)
                          alerted |-> IF calculateOnly THEN Len(gridsites)
                                      ELSE NotComputed ]
      /\ showFillRegionModal' = FALSE
      /\ isDrawingMode' = FALSE
      /\ drawnPolygon' = Null
      /\ mousePosition' = NoMouse
      /\ UNCHANGED <<latencyVars, costVars, ringVars>>
      /\ UNCHANGED pageVars
      /\ UNCHANGED <<showLatencyModal, radiusMultiplier, calculateOnlyMode,
                     currentPolygon, pendingPolygons>>

\* Fill Region modal: one button per threshold
FillRegionButton(latencyThreshold) ==
  /\ showFillRegionModal
  /\ handleFillRegion(latencyThreshold, FALSE, calculateOnlyMode)

\* Latency Selection modal for a custom shape: one button per threshold
CustomShapeButton(latencyThreshold) ==
  /\ showLatencyModal
  /\ handleFillRegion(latencyThreshold, TRUE, calculateOnlyMode)

handleStartDrawing ==
  /\ showFillRegionModal
  /\ isDrawingMode' = TRUE
  /\ drawnPolygon' = Null
  /\ showFillRegionModal' = FALSE
  \* the drawing effect is set up anew when isDrawingMode changes
  /\ mousePosition' = IF isDrawingMode THEN mousePosition ELSE NoMouse
  /\ UNCHANGED <<latencyVars, costVars, ringVars>>
  /\ UNCHANGED pageVars
  /\ UNCHANGED <<storeVars, showLatencyModal, radiusMultiplier, calculateOnlyMode,
                 currentPolygon, pendingPolygons, fill>>

handlePolygonComplete ==
  /\ NoModal
  /\ isDrawingMode
  /\ ~drawnPolygon.isNull /\ Len(drawnPolygon.points) >= 3
  /\ isDrawingMode' = FALSE
  /\ showLatencyModal' = TRUE
  /\ mousePosition' = NoMouse
  /\ UNCHANGED <<latencyVars, costVars, ringVars>>
  /\ UNCHANGED pageVars
  /\ UNCHANGED <<storeVars, showFillRegionModal, drawnPolygon, radiusMultiplier,
                 calculateOnlyMode, currentPolygon, pendingPolygons, fill>>

CancelLatencyModal ==
  /\ showLatencyModal
  /\ showLatencyModal' = FALSE
  /\ drawnPolygon' = Null
  /\ UNCHANGED <<latencyVars, costVars, ringVars>>
  /\ UNCHANGED pageVars
  /\ UNCHANGED <<storeVars, showFillRegionModal, isDrawingMode, radiusMultiplier,
                 calculateOnlyMode, canvasVars, fill>>

\* MapCanvas drawing effect: mousemove
handleMouseMove(position) ==
  /\ isDrawingMode
  /\ NoModal
  /\ mousePosition' = position
  /\ UNCHANGED <<latencyVars, costVars, ringVars>>
  /\ UNCHANGED pageVars
  /\ UNCHANGED <<storeVars, homeVars, currentPolygon, pendingPolygons, fill>>

\* MapCanvas drawing effect: keydown 'a' / 'A'
KeyAddPoint ==
  /\ isDrawingMode
  /\ Len(currentPolygon) < MaxPolygonPoints
  /\ Len(pendingPolygons) < MaxPending
  /\ LET newPoint == IF mousePosition # NoMouse THEN mousePosition ELSE DFW_CENTER
         newPolygon == Append(currentPolygon, newPoint)
     IN  /\ currentPolygon' = newPolygon
         /\ pendingPolygons' = Append(pendingPolygons, newPolygon)
  /\ UNCHANGED <<latencyVars, costVars, ringVars>>
  /\ UNCHANGED pageVars
  /\ UNCHANGED <<storeVars, homeVars, mousePosition, fill>>

\* MapCanvas drawing effect: keydown 'Enter'
KeyEnter ==
  /\ isDrawingMode
  /\ Len(currentPolygon) >= 3
  /\ Len(pendingPolygons) < MaxPending
  /\ pendingPolygons' = Append(pendingPolygons, currentPolygon)
  /\ UNCHANGED <<latencyVars, costVars, ringVars>>
  /\ UNCHANGED pageVars
  /\ UNCHANGED <<storeVars, homeVars, currentPolygon, mousePosition, fill>>

\* MapCanvas drawing effect: keydown 'Escape'
KeyEscape ==
  /\ isDrawingMode
  /\ currentPolygon' = << >>
  /\ drawnPolygon' = Null
  /\ UNCHANGED <<latencyVars, costVars, ringVars>>
  /\ UNCHANGED pageVars
  /\ UNCHANGED <<storeVars, showFillRegionModal, isDrawingMode, showLatencyModal,
                 radiusMultiplier, calculateOnlyMode, mousePosition, pendingPolygons,
                 fill>>

\* a queued setTimeout(() => setDrawnPolygon(polygon), 0) runs
SetDrawnPolygonTimeout ==
  /\ pendingPolygons # << >>
  /\ drawnPolygon' = Polygon(Head(pendingPolygons))
  /\ pendingPolygons' = Tail(pendingPolygons)
  /\ UNCHANGED <<latencyVars, costVars, ringVars>>
  /\ UNCHANGED pageVars
  /\ UNCHANGED <<storeVars, showFillRegionModal, isDrawingMode, showLatencyModal,
                 radiusMultiplier, calculateOnlyMode, currentPolygon, mousePosition,
                 fill>>

InitApp ==
  /\ AppInit
  /\ LatencyIdle
  /\ CostIdle
  /\ RingIdle

NextApp ==
  \/ OpenFillRegionModal
  \/ CancelFillRegionModal
  \/ \E m \in { 1, 2 } : setRadiusMultiplier(m)
  \/ \E b \in BOOLEAN : setCalculateOnlyMode(b)
  \/ \E t \in FillThresholds : FillRegionButton(t)
  \/ \E t \in FillThresholds : CustomShapeButton(t)
  \/ handleStartDrawing
  \/ handlePolygonComplete
  \/ CancelLatencyModal
  \/ \E position \in MousePositions : handleMouseMove(position)
  \/ KeyAddPoint
  \/ KeyEnter
  \/ KeyEscape
  \/ SetDrawnPolygonTimeout

SpecApp == InitApp /\ [][NextApp]_vars

\* Home with the default rectangle only: nothing is drawn
NextFill ==
  \/ OpenFillRegionModal
  \/ CancelFillRegionModal
  \/ \E m \in { 1, 2 } : setRadiusMultiplier(m)
  \/ \E b \in BOOLEAN : setCalculateOnlyMode(b)
  \/ \E t \in FillThresholds : FillRegionButton(t)

SpecFill == InitApp /\ [][NextFill]_vars

(***************************************************************************)
(* The sweep loops of handleFillRegion over a given rectangle              *)
(***************************************************************************)
\* the default rectangle, a rectangle narrower than any step, and rectangles
\* with south > north, with west > east and with both
SweepRegions ==
  { DFWBounds,
    [ DFWBounds EXCEPT !.north = Latitude(326001), !.east = Longitude(-973999) ],
    [ DFWBounds EXCEPT !.north = Latitude(326000), !.south = Latitude(333000) ],
    [ DFWBounds EXCEPT !.east = Longitude(-974000), !.west = Longitude(-965000) ],
    [ north |-> Latitude(326000), south |-> Latitude(333000),
      east |-> Longitude(-974000), west |-> Longitude(-965000) ] }

IsInverted(bounds) == bounds.south > bounds.north \/ bounds.west > bounds.east

\* handleFillRegion from the radius lookup to the alert, in count-only mode,
\* for the rectangle `bounds`.  With a step that is not positive neither
\* loop variable advances: a loop that is entered does not end, and no
\* count is shown.  A sweep reads nothing an earlier sweep has left: one
\* sweep is taken per behaviour.
SweepRegion(bounds, latencyThreshold) ==
  /\ showFillRegionModal
  /\ ~fill.called
  /\ LET radiusKm == getRadiusForLatency(latencyThreshold, radiusMultiplier)
         spacingDegrees == SpacingDegrees(GridSpacing(radiusKm))
         ends == spacingDegrees > 0 \/ bounds.south > bounds.north
         kept == IF spacingDegrees > 0
                 THEN FillCandidates(bounds, spacingDegrees, radiusKm, FALSE, Null)
                 ELSE << >>
         gridsites == [ c \in 1..Len(kept) |->
                          FillGridSite(latencyThreshold, c - 1, kept[c]) ]
     IN  fill' = [ called |-> TRUE,
                   latencyThreshold |-> latencyThreshold,
                   useCustomShape |-> FALSE,
                   calculateOnly |-> TRUE,
                   polygon |-> Null,
                   bounds |-> bounds,
                   multiplier |-> radiusMultiplier,
                   radiusKm |-> radiusKm,
                   spacingDegrees |-> spacingDegrees,
                   gridsites |-> gridsites,
                   alerted |-> IF ends THEN Len(gridsites) ELSE NotComputed ]
  /\ showFillRegionModal' = FALSE
  /\ UNCHANGED <<latencyVars, costVars, ringVars>>
  /\ UNCHANGED pageVars
  /\ UNCHANGED <<storeVars, isDrawingMode, drawnPolygon, showLatencyModal,
                 radiusMultiplier, calculateOnlyMode, canvasVars>>

NextSweep ==
  \/ OpenFillRegionModal
  \/ CancelFillRegionModal
  \/ \E m \in { 1, 2 } : setRadiusMultiplier(m)
  \/ \E bounds \in SweepRegions : \E t \in FillThresholds : SweepRegion(bounds, t)

SpecSweep == InitApp /\ [][NextSweep]_vars

\* thresholds of the fills of a drawn shape, positions of the mouse while
\* drawing (a vertex added before the mouse has moved is DFW_CENTER)
DrawThresholds == { 25 }
DrawPositions ==
  { << Longitude(-970000), Latitude(327000) >>,
    << Longitude(-968700), Latitude(329000) >> }

\* Home with a drawn shape only: every fill is a custom-shape fill
NextDraw ==
  \/ OpenFillRegionModal
  \/ CancelFillRegionModal
  \/ \E t \in DrawThresholds : CustomShapeButton(t)
  \/ handleStartDrawing
  \/ handlePolygonComplete
  \/ CancelLatencyModal
  \/ \E position \in DrawPositions : handleMouseMove(position)
  \/ KeyAddPoint
  \/ KeyEnter
  \/ KeyEscape
  \/ SetDrawnPolygonTimeout

SpecDraw == InitApp /\ [][NextDraw]_vars

(***************************************************************************)
(* isPointInPolygon applied to convex polygons of a grid, at their         *)
(* centroids and at points inside and outside their bounding boxes         *)
(***************************************************************************)
\* grid spacing: the mean of 3, 4, 5 or 6 grid coordinates is a whole number
UnitLength == 60
GridSteps == 2
MaxVertices == 4

GridPoints ==
  { << UnitLength * a, UnitLength * b >> : a \in 0..GridSteps, b \in 0..GridSteps }

\* twice the signed area of the triangle a, b, c
Turn(a, b, c) ==
  (b[1] - a[1]) * (c[2] - a[2]) - (b[2] - a[2]) * (c[1] - a[1])

Following(polygon, i) == polygon[IF i = Len(polygon) THEN 1 ELSE i + 1]
Preceding(polygon, i) == polygon[IF i = 1 THEN Len(polygon) ELSE i - 1]

\* distinct vertices, every vertex on one side of every edge, not all on one
\* line, and no edge running back over the edge before it
IsConvexPolygon(polygon) ==
  LET n == Len(polygon)
      side(i, k) == Turn(polygon[i], Following(polygon, i), polygon[k])
      ahead(i) ==
        (polygon[i][1] - Preceding(polygon, i)[1]) * (Following(polygon, i)[1] - polygon[i][1])
        + (polygon[i][2] - Preceding(polygon, i)[2]) * (Following(polygon, i)[2] - polygon[i][2])
  IN  /\ n >= 3
      /\ \A i, k \in 1..n : i # k => polygon[i] # polygon[k]
      /\ \/ \A i, k \in 1..n : side(i, k) >= 0
         \/ \A i, k \in 1..n : side(i, k) <= 0
      /\ \E i, k \in 1..n : side(i, k) # 0
      /\ \A i \in 1..n :
           Turn(Preceding(polygon, i), polygon[i], Following(polygon, i)) = 0
             => ahead(i) > 0

ConvexPolygons ==
  UNION { { polygon \in [ 1..n -> GridPoints ] : IsConvexPolygon(polygon) }
          : n \in 3..MaxVertices }

SumOfX(polygon) == SumSeq([ i \in 1..Len(polygon) |-> polygon[i][1] ])
SumOfY(polygon) == SumSeq([ i \in 1..Len(polygon) |-> polygon[i][2] ])

\* the mean of the vertices, when it is a point of whole coordinates
IsVertexCentroid(point, polygon) ==
  /\ Len(polygon) * point[1] = SumOfX(polygon)
  /\ Len(polygon) * point[2] = SumOfY(polygon)

VertexCentroid(polygon) ==
  << SumOfX(polygon) \div Len(polygon), SumOfY(polygon) \div Len(polygon) >>

\* the centre of mass of the area: with a(i) = x(i) * y(i+1) - x(i+1) * y(i),
\* Cx = sum((x(i) + x(i+1)) * a(i)) / (3 * sum(a(i))), and Cy likewise
EdgeArea(polygon, i) ==
  polygon[i][1] * Following(polygon, i)[2] - Following(polygon, i)[1] * polygon[i][2]

TwiceArea(polygon) ==
  SumSeq([ i \in 1..Len(polygon) |-> EdgeArea(polygon, i) ])

MomentOf(polygon, c) ==
  SumSeq([ i \in 1..Len(polygon) |->
             (polygon[i][c] + Following(polygon, i)[c]) * EdgeArea(polygon, i) ])

IsAreaCentroid(point, polygon) ==
  /\ 3 * TwiceArea(polygon) * point[1] = MomentOf(polygon, 1)
  /\ 3 * TwiceArea(polygon) * point[2] = MomentOf(polygon, 2)

AreaCentroid(polygon) ==
  << MomentOf(polygon, 1) \div (3 * TwiceArea(polygon)),
     MomentOf(polygon, 2) \div (3 * TwiceArea(polygon)) >>

\* points of a half-step grid that reaches half a step beyond the polygons
TestPoints ==
  { << (UnitLength \div 2) * a, (UnitLength \div 2) * b >> :
      a \in -1..(2 * GridSteps + 1), b \in -1..(2 * GridSteps + 1) }

IsOutsideBounds(point, polygon) ==
  LET bounds == getPolygonBounds(polygon)
  IN  \/ point[1] < bounds.west
      \/ point[1] > bounds.east
      \/ point[2] < bounds.south
      \/ point[2] > bounds.north

\* the arguments of one call: a convex polygon, and a test point or one of the
\* polygon's centroids
InitPolygon ==
  /\ \E polygon \in ConvexPolygons :
       \E point \in TestPoints \cup { VertexCentroid(polygon), AreaCentroid(polygon) } :
         pointInPolygon = [ called |-> FALSE, point |-> point, polygon |-> polygon,
                            inside |-> FALSE ]
  /\ LatencyIdle
  /\ CostIdle
  /\ RingIdle
  /\ HomeInit
  /\ UrlIdle
  /\ PowerIdle

CallIsPointInPolygon ==
  /\ ~pointInPolygon.called
  /\ pointInPolygon' =
       [ pointInPolygon EXCEPT
           !.called = TRUE,
           !.inside = isPointInPolygon(pointInPolygon.point, pointInPolygon.polygon) ]
  /\ UNCHANGED <<latencyVars, costVars, ringVars>>
  /\ UNCHANGED <<storeVars, homeVars, canvasVars, fill, stateVars, modeVars,
                 layerVars, urlVars, deleteAll, powerVars>>

NextPolygon == CallIsPointInPolygon

SpecPolygon == InitPolygon /\ [][NextPolygon]_vars

(***************************************************************************)
(* The power overlay: PowerOverlayControls, the store's powerOverlay and   *)
(* the power-overlay effect of MapCanvas                                   *)
(***************************************************************************)
PowerOverlays ==
  [ enabled : BOOLEAN, subLayers : [ PowerLayerTypes -> BOOLEAN ] ]

\* the map has loaded and the effect is about to run for the overlay the
\* store starts with
InitPower ==
  /\ powerOverlay \in PowerOverlays
  /\ powerMap = NoPowerMap
  /\ overlayEffect = [ NoOverlayEffect EXCEPT !.pending = TRUE ]
  /\ LatencyIdle
  /\ CostIdle
  /\ RingIdle
  /\ HomeInit
  /\ UrlIdle
  /\ PolygonIdle

\* setPowerOverlay({ enabled: !powerOverlay.enabled }): the sub-layer flags stay
handlePowerToggle ==
  /\ ~overlayEffect.pending
  /\ powerOverlay' = [ powerOverlay EXCEPT !.enabled = ~powerOverlay.enabled ]
  /\ overlayEffect' = [ overlayEffect EXCEPT !.pending = TRUE, !.processed = FALSE ]
  /\ UNCHANGED <<latencyVars, costVars, ringVars>>
  /\ UNCHANGED <<storeVars, homeVars, canvasVars, fill, stateVars, modeVars,
                 layerVars, urlVars, deleteAll, pointInPolygon, powerMap>>

\* the sub-layer checkboxes are rendered while the overlay is enabled
handleSubLayerToggle(layer) ==
  /\ ~overlayEffect.pending
  /\ powerOverlay.enabled
  /\ powerOverlay' = [ powerOverlay EXCEPT !.subLayers[layer] = ~powerOverlay.subLayers[layer] ]
  /\ overlayEffect' = [ overlayEffect EXCEPT !.pending = TRUE, !.processed = FALSE ]
  /\ UNCHANGED <<latencyVars, costVars, ringVars>>
  /\ UNCHANGED <<storeVars, homeVars, canvasVars, fill, stateVars, modeVars,
                 layerVars, urlVars, deleteAll, pointInPolygon, powerMap>>

\* the map starts or ends loading tiles or source data: isStyleLoaded() changes
SetStyleLoaded(loaded) ==
  /\ powerMap.styleLoaded # loaded
  /\ powerMap' = [ powerMap EXCEPT !.styleLoaded = loaded ]
  /\ UNCHANGED <<latencyVars, costVars, ringVars>>
  /\ UNCHANGED <<storeVars, homeVars, canvasVars, fill, stateVars, modeVars,
                 layerVars, urlVars, deleteAll, pointInPolygon, powerOverlay,
                 overlayEffect>>

\* the effect on [mapLoaded, powerOverlay].  `loaded` is what isStyleLoaded()
\* answers once registerPowerLayers has run: true, unless the call has just
\* added the sources, whose data the style then waits for
PowerOverlayEffect(loaded) ==
  /\ overlayEffect.pending
  /\ loaded \/ (\E l \in PowerLayerTypes : ~powerMap.layers[l].exists)
  /\ loaded \/ (powerMap.styleLoaded /\ powerOverlay.enabled)
  /\ IF ~powerMap.styleLoaded
     THEN /\ powerMap' = powerMap
          /\ overlayEffect' = [ overlayEffect EXCEPT !.pending = FALSE, !.processed = FALSE ]
     ELSE IF powerOverlay.enabled
     THEN LET registered == [ registerPowerLayers(powerMap) EXCEPT !.styleLoaded = loaded ]
              transmission == setPowerLayerVisibility(registered, "transmission",
                                                      powerOverlay.subLayers.transmission)
              substations == setPowerLayerVisibility(transmission, "substations",
                                                     powerOverlay.subLayers.substations)
              plants == setPowerLayerVisibility(substations, "plants",
                                                powerOverlay.subLayers.plants)
          IN  /\ powerMap' = plants
              /\ overlayEffect' = [ overlayEffect EXCEPT !.pending = FALSE,
                                                         !.processed = loaded,
                                                         !.registered = TRUE ]
     ELSE /\ powerMap' = unregisterPowerLayers(powerMap)
          /\ overlayEffect' =
               [ overlayEffect EXCEPT
                   !.pending = FALSE,
                   !.processed = TRUE,
                   !.hidden = @ \/ (\E l \in PowerLayerTypes : powerMap.layers[l].exists) ]
  /\ UNCHANGED <<latencyVars, costVars, ringVars>>
  /\ UNCHANGED <<storeVars, homeVars, canvasVars, fill, stateVars, modeVars,
                 layerVars, urlVars, deleteAll, pointInPolygon, powerOverlay>>

NextPower ==
  \/ handlePowerToggle
  \/ \E layer \in PowerLayerTypes : handleSubLayerToggle(layer)
  \/ \E loaded \in BOOLEAN : SetStyleLoaded(loaded)
  \/ \E loaded \in BOOLEAN : PowerOverlayEffect(loaded)

SpecPower == InitPower /\ [][NextPower]_vars

(***************************************************************************)
(* page.tsx : Home, placing, selecting and deleting GridSites              *)
(***************************************************************************)
\* manual placements (each reads a later Date.now()), selected ids
MaxNow == 1
MaxSelected == 2

\* places of the map the user clicks, as [lat, lon]
MapClickPositions ==
  { << Latitude(326000), Longitude(-965000) >>,
    << Latitude(328500), Longitude(-971250) >> }

\* Number.prototype.toFixed(4) and the template `${lat}, ${lon}`: text is a
\* sequence of one-character strings
Digit(d) == << "0", "1", "2", "3", "4", "5", "6", "7", "8", "9" >>[d + 1]

RECURSIVE NatToText(_)
NatToText(n) ==
  IF n < 10 THEN << Digit(n) >> ELSE Append(NatToText(n \div 10), Digit(n % 10))

\* a value given in 1e-4 degrees
toFixed4(d4) ==
  LET a == IF d4 < 0 THEN -d4 ELSE d4
      f == a % 10000
  IN  (IF d4 < 0 THEN << "-" >> ELSE << >>)
      \o NatToText(a \div 10000) \o << "." >>
      \o << Digit(f \div 1000), Digit((f \div 100) % 10),
            Digit((f \div 10) % 10), Digit(f % 10) >>

\* a latitude and a longitude of the model in 1e-4 degrees, rounded
LatitudeE4(lat) == (2 * lat + (UnitsPerDegree \div 10000)) \div (2 * (UnitsPerDegree \div 10000))
LongitudeE4(lon) == LatitudeE4(lon) - 1000000

\* handleMapClick: the GridSite it builds
ManualGridSite(time, lat, lon) ==
  [ id       |-> << "gridsite", time >>,
    name     |-> << "GridSite Container (user-placed)" >>,
    type     |-> "gridsite",
    operator |-> "GridSite",
    lat      |-> lat,
    lon      |-> lon,
    pricing  |-> [ usd_per_kw_month |-> 12000000, rack_usd_month |-> 90000000 ],
    vacancy  |-> "high" ]

\* handleMapClick: the point of use it builds
ClickedPointOfUse(lat, lon) ==
  [ isNull |-> FALSE, lat |-> lat, lon |-> lon,
    address |-> toFixed4(LatitudeE4(lat)) \o << ",", " " >> \o toFixed4(LongitudeE4(lon)) ]

\* a handler that enters placement mode and leaves delete mode as it is
handleAddGridSiteKeepingDeleteMode ==
  /\ NoModal
  /\ isPlacingGridSite' = ~isPlacingGridSite
  /\ isDeleteMode' = isDeleteMode
  /\ UNCHANGED <<latencyVars, costVars, ringVars>>
  /\ UNCHANGED <<storeVars, homeVars, canvasVars, fill, deleteAll, pointInPolygon, powerVars, stateVars, isPlacingPointOfUse,
                 now, layerVars, urlVars>>

handleAddGridSite ==
  /\ NoModal
  /\ isPlacingGridSite' = ~isPlacingGridSite
  /\ isDeleteMode' = IF isPlacingGridSite THEN isDeleteMode ELSE FALSE
  /\ UNCHANGED <<latencyVars, costVars, ringVars>>
  /\ UNCHANGED <<storeVars, homeVars, canvasVars, fill, deleteAll, pointInPolygon, powerVars, stateVars, isPlacingPointOfUse,
                 now, layerVars, urlVars>>

handleDeleteMode ==
  /\ NoModal
  /\ isDeleteMode' = ~isDeleteMode
  /\ isPlacingGridSite' = IF isDeleteMode THEN isPlacingGridSite ELSE FALSE
  /\ UNCHANGED <<latencyVars, costVars, ringVars>>
  /\ UNCHANGED <<storeVars, homeVars, canvasVars, fill, deleteAll, pointInPolygon, powerVars, stateVars, isPlacingPointOfUse,
                 now, layerVars, urlVars>>

\* LeftDrawer handleMapClick: enter point-of-use placement mode
StartPlacingPointOfUse ==
  /\ NoModal
  /\ ~isPlacingPointOfUse
  /\ isPlacingPointOfUse' = TRUE
  /\ UNCHANGED <<latencyVars, costVars, ringVars>>
  /\ UNCHANGED <<storeVars, homeVars, canvasVars, fill, deleteAll, pointInPolygon, powerVars, stateVars, isPlacingGridSite,
                 isDeleteMode, now, layerVars, urlVars>>

\* MapCanvas handleClick, then Home handleMapClick.  Date.now() has advanced
\* since the previous placement.
handleMapClick(lat, lon) ==
  /\ NoModal
  /\ isPlacingGridSite \/ isPlacingPointOfUse
  /\ IF isPlacingGridSite
     THEN /\ now < MaxNow
          /\ Len(userGridSites) < MaxGridSites
          /\ now' = now + 1
          /\ userGridSites' = addUserGridSite(userGridSites, ManualGridSite(now + 1, lat, lon))
          /\ isPlacingGridSite' = FALSE
          /\ UNCHANGED <<pointOfUse, isPlacingPointOfUse>>
     ELSE /\ pointOfUse' = ClickedPointOfUse(lat, lon)
          /\ isPlacingPointOfUse' = FALSE
          /\ UNCHANGED <<userGridSites, isPlacingGridSite, now>>
  /\ UNCHANGED <<latencyVars, costVars, ringVars>>
  /\ UNCHANGED <<homeVars, canvasVars, fill, deleteAll, pointInPolygon, powerVars, storeNodes, selectedNodes, selectedWorkload,
                 filters, compareMode, latencyRingMode, isDeleteMode, layerVars, urlVars>>

\* userGridSites.forEach(site => removeUserGridSite(site.id)): the store
\* after the calls for the ids of `todo`
RECURSIVE RemoveEach(_, _)
RemoveEach(state, todo) ==
  IF todo = << >> THEN state
  ELSE RemoveEach([ userGridSites |-> removeUserGridSite(state.userGridSites, Head(todo).id),
                    selectedNodes |-> removeFromSelection(state.selectedNodes, Head(todo).id) ],
                  Tail(todo))

handleDeleteAllGridSites ==
  /\ NoModal
  /\ Len(userGridSites) > 0
  /\ LET after == RemoveEach([ userGridSites |-> userGridSites,
                               selectedNodes |-> selectedNodes ], userGridSites)
     IN  /\ userGridSites' = after.userGridSites
         /\ selectedNodes' = after.selectedNodes
  /\ isDeleteMode' = FALSE
  \* the length of the list the handler iterated over, and whether one of
  \* its nodes was selected
  /\ deleteAll' = [ called |-> TRUE, removed |-> Len(userGridSites),
                    selectedRemoved |->
                      \E i \in 1..Len(userGridSites) :
                        Includes(selectedNodes, userGridSites[i].id) ]
  /\ UNCHANGED <<latencyVars, costVars, ringVars>>
  /\ UNCHANGED <<homeVars, canvasVars, fill, pointInPolygon, powerVars, storeNodes, pointOfUse,
                 selectedWorkload, filters, compareMode, latencyRingMode,
                 isPlacingGridSite, isPlacingPointOfUse, now, layerVars, urlVars>>

\* the ids of a list of nodes
Ids(list) == { list[i].id : i \in 1..Len(list) }

\* LeftDrawer node list and CloudProviderCards: a click on the card of a node
SelectNode(nodeId) ==
  /\ NoModal
  /\ nodeId \in Ids(getFilteredNodes(storeNodes, filters, userGridSites))
  /\ Includes(selectedNodes, nodeId) \/ Len(selectedNodes) < MaxSelected
  /\ selectedNodes' = toggleNodeSelection(selectedNodes, nodeId)
  /\ UNCHANGED <<latencyVars, costVars, ringVars>>
  /\ UNCHANGED <<storeVars, homeVars, canvasVars, fill, deleteAll, pointInPolygon, powerVars, storeNodes, pointOfUse,
                 selectedWorkload, filters, compareMode, latencyRingMode, modeVars,
                 layerVars, urlVars>>

\* thresholds of the fills of this page: two GridSites each
HomeThresholds == { 25 }

\* the place of the map the user clicks on this page
HomeClickPositions == { << Latitude(326000), Longitude(-965000) >> }

\* ids a card can be clicked for
HomeIds ==
  { Catalog[1].id } \cup { << "gridsite", t >> : t \in 1..MaxNow }
  \cup { << "fill-gridsite", t, 0 >> : t \in HomeThresholds }

NextHome ==
  \/ OpenFillRegionModal
  \/ CancelFillRegionModal
  \/ \E b \in BOOLEAN : setCalculateOnlyMode(b)
  \/ \E t \in HomeThresholds : FillRegionButton(t)
  \/ handleAddGridSite
  \/ handleDeleteMode
  \/ \E p \in HomeClickPositions : handleMapClick(p[1], p[2])
  \/ handleDeleteAllGridSites
  \/ \E nodeId \in HomeIds : SelectNode(nodeId)

SpecHome == InitApp /\ [][NextHome]_vars

(***************************************************************************)
(* MapCanvas : the 'nodes' source, the 'nodes-circle' layer and its click  *)
(* handler; the filter checkboxes                                          *)
(***************************************************************************)
\* values of the type filter the user toggles
FilterTypes == { "colo", "gridsite" }

\* LatencyRingToggle updateFilter for the type filter: the checkbox of
\* `value` is toggled
updateFilter(value) ==
  /\ NoModal
  /\ filters' = [ filters EXCEPT !.type = IF Includes(@, value)
                                          THEN Without(@, value)
                                          ELSE Append(@, value) ]
  /\ UNCHANGED <<latencyVars, costVars, ringVars>>
  /\ UNCHANGED <<storeVars, homeVars, canvasVars, fill, deleteAll, pointInPolygon, powerVars, storeNodes, selectedNodes,
                 pointOfUse, selectedWorkload, compareMode, latencyRingMode, modeVars,
                 layerVars, urlVars>>

\* the values of the dependency list of the node effect that the model holds
NodeEffectDeps ==
  << storeNodes, selectedNodes, userGridSites, isPlacingGridSite, isPlacingPointOfUse,
     isDeleteMode, latencyRingMode >>

\* the node effect runs: after the map has loaded, again whenever a
\* dependency has changed, and whenever a map event (idle, styledata,
\* moveend, drag) has raised forceNodeReload, which shows when the filters
\* have changed since.  The click handler is registered when the layer is
\* created, with the values of that render.
AddNodesToMap ==
  /\ \/ ~nodesSource.created
     \/ nodesSource.deps # NodeEffectDeps
     \/ nodesSource.filters # filters
  /\ nodesSource' = [ created |-> TRUE,
                      filters |-> filters,
                      deps |-> NodeEffectDeps,
                      features |-> NodesToShow(storeNodes, filters, userGridSites,
                                               isDeleteMode) ]
  /\ nodeClickHandler' =
       IF nodeClickHandler.registered THEN nodeClickHandler
       ELSE [ registered |-> TRUE, isDeleteMode |-> isDeleteMode,
              nodes |-> storeNodes \o userGridSites ]
  /\ UNCHANGED <<latencyVars, costVars, ringVars>>
  /\ UNCHANGED <<storeVars, homeVars, canvasVars, fill, deleteAll, pointInPolygon, powerVars, stateVars, modeVars, urlVars>>

\* allNodes.find(n => n.id === nodeId): << >> is undefined
Find(list, nodeId) ==
  IF nodeId \in Ids(list)
  THEN << list[CHOOSE i \in 1..Len(list) :
                 list[i].id = nodeId /\ \A j \in 1..(i - 1) : list[j].id # nodeId] >>
  ELSE << >>

\* a click on the feature of nodeId in the 'nodes-circle' layer, once the
\* effect has run for the current render: handleNodeClickCallback as it was
\* registered, calling the handleNodeClick of that render
ClickNode(nodeId) ==
  /\ NoModal
  /\ ~isPlacingGridSite /\ ~isPlacingPointOfUse
  /\ ~latencyRingMode.enabled
  /\ nodeClickHandler.registered
  /\ nodesSource.created /\ nodesSource.deps = NodeEffectDeps
  /\ nodeId \in Ids(nodesSource.features)
  /\ LET found == Find(nodeClickHandler.nodes, nodeId)
         deletes == /\ found # << >>
                    /\ nodeClickHandler.isDeleteMode
                    /\ found[1].type = "gridsite"
         removed == IF deletes THEN removeFromSelection(selectedNodes, nodeId)
                    ELSE selectedNodes
     IN  /\ nodeClickHandler.isDeleteMode
            \/ Includes(removed, nodeId) \/ Len(removed) < MaxSelected
         /\ userGridSites' = IF deletes THEN removeUserGridSite(userGridSites, nodeId)
                             ELSE userGridSites
         /\ isDeleteMode' = IF deletes THEN FALSE ELSE isDeleteMode
         /\ selectedNodes' = IF ~nodeClickHandler.isDeleteMode
                             THEN toggleNodeSelection(removed, nodeId)
                             ELSE removed
  /\ UNCHANGED <<latencyVars, costVars, ringVars>>
  /\ UNCHANGED <<homeVars, canvasVars, fill, deleteAll, pointInPolygon, powerVars, storeNodes, pointOfUse, selectedWorkload,
                 filters, compareMode, latencyRingMode, isPlacingGridSite,
                 isPlacingPointOfUse, now, layerVars, urlVars>>

\* ids a feature can be clicked for
LayerIds == Ids(Catalog) \cup { << "gridsite", t >> : t \in 1..MaxNow }

NextLayer ==
  \/ handleAddGridSite
  \/ handleDeleteMode
  \/ StartPlacingPointOfUse
  \/ \E p \in MapClickPositions : handleMapClick(p[1], p[2])
  \/ \E value \in FilterTypes : updateFilter(value)
  \/ AddNodesToMap
  \/ \E nodeId \in LayerIds : ClickNode(nodeId)

SpecLayer == InitApp /\ [][NextLayer]_vars

(***************************************************************************)
(* Home: every handler that sets isPlacingGridSite, isPlacingPointOfUse or *)
(* isDeleteMode                                                            *)
(***************************************************************************)
NextModes ==
  \/ handleAddGridSite
  \/ handleDeleteMode
  \/ StartPlacingPointOfUse
  \/ \E p \in MapClickPositions : handleMapClick(p[1], p[2])
  \/ handleDeleteAllGridSites
  \/ AddNodesToMap
  \/ \E nodeId \in LayerIds : ClickNode(nodeId)

SpecModes == InitApp /\ [][NextModes]_vars

(***************************************************************************)
(* url-state.ts : the URL codec.  Text is a sequence of atoms; an atom is  *)
(* one character, or a word of unreserved characters (letters, digits,     *)
(* "-", "_", "."), which every escaping function leaves as it is.  A       *)
(* string of the application state is a text here.  A number is given in   *)
(* 1e-4 units (degrees) or as a natural (threshold, multiplier).           *)
(***************************************************************************)
\* characters the escaping functions replace, with the two hex digits of
\* their code
Reserved ==
  { << " ", "2", "0" >>, << "%", "2", "5" >>, << "&", "2", "6" >>,
    << "+", "2", "B" >>, << ",", "2", "C" >>, << "=", "3", "D" >> }

IsReserved(c) == \E r \in Reserved : r[1] = c
EscapeOf(c) == LET r == CHOOSE r \in Reserved : r[1] = c IN << "%", r[2], r[3] >>
IsEscape(h1, h2) == \E r \in Reserved : r[2] = h1 /\ r[3] = h2
Unescape(h1, h2) == (CHOOSE r \in Reserved : r[2] = h1 /\ r[3] = h2)[1]

RECURSIVE encodeURIComponent(_)
encodeURIComponent(text) ==
  IF text = << >> THEN << >>
  ELSE (IF IsReserved(Head(text)) THEN EscapeOf(Head(text)) ELSE << Head(text) >>)
       \o encodeURIComponent(Tail(text))

\* a "%" that two hex digits do not follow makes decodeURIComponent throw;
\* such text is returned as it is here and never arises from the encoder
RECURSIVE decodeURIComponent(_)
decodeURIComponent(text) ==
  IF text = << >> THEN << >>
  ELSE IF Head(text) = "%" /\ Len(text) >= 3 /\ IsEscape(text[2], text[3])
       THEN << Unescape(text[2], text[3]) >> \o decodeURIComponent(SubSeq(text, 4, Len(text)))
       ELSE << Head(text) >> \o decodeURIComponent(Tail(text))

\* URLSearchParams.toString: application/x-www-form-urlencoded
RECURSIVE FormEncode(_)
FormEncode(text) ==
  IF text = << >> THEN << >>
  ELSE (IF Head(text) = " " THEN << "+" >>
        ELSE IF IsReserved(Head(text)) THEN EscapeOf(Head(text))
        ELSE << Head(text) >>)
       \o FormEncode(Tail(text))

\* new URLSearchParams(search)
RECURSIVE FormDecode(_)
FormDecode(text) ==
  IF text = << >> THEN << >>
  ELSE IF Head(text) = "+" THEN << " " >> \o FormDecode(Tail(text))
  ELSE IF Head(text) = "%" /\ Len(text) >= 3 /\ IsEscape(text[2], text[3])
       THEN << Unescape(text[2], text[3]) >> \o FormDecode(SubSeq(text, 4, Len(text)))
       ELSE << Head(text) >> \o FormDecode(Tail(text))

\* Array.prototype.join(',')
RECURSIVE Join(_)
Join(texts) ==
  IF texts = << >> THEN << >>
  ELSE IF Len(texts) = 1 THEN texts[1]
  ELSE texts[1] \o << "," >> \o Join(Tail(texts))

\* String.prototype.split(','): `piece` is the text since the last comma
RECURSIVE SplitFrom(_, _)
SplitFrom(piece, text) ==
  IF text = << >> THEN << piece >>
  ELSE IF Head(text) = "," THEN << piece >> \o SplitFrom(<< >>, Tail(text))
  ELSE SplitFrom(Append(piece, Head(text)), Tail(text))

Split(text) == SplitFrom(<< >>, text)

\* Number.prototype.toString of a natural, parseInt and parseFloat of its
\* digits (each digit is an atom)
DigitValue(c) == CHOOSE d \in 0..9 : Digit(d) = c

RECURSIVE TextToNat(_)
TextToNat(text) ==
  IF text = << >> THEN 0
  ELSE 10 * TextToNat(SubSeq(text, 1, Len(text) - 1)) + DigitValue(text[Len(text)])

\* the digits of the fraction f / 10000 without trailing zeros
RECURSIVE FractionText(_, _)
FractionText(f, width) ==
  IF f = 0 THEN << >>
  ELSE << Digit(f \div width) >> \o FractionText((f % width) * 10, width)

\* Number.prototype.toString of d4 / 10000
NumberToString(d4) ==
  LET a == IF d4 < 0 THEN -d4 ELSE d4
      f == a % 10000
  IN  (IF d4 < 0 THEN << "-" >> ELSE << >>)
      \o NatToText(a \div 10000)
      \o (IF f = 0 THEN << >> ELSE << "." >> \o FractionText(f, 1000))

\* the value of up to four fraction digits, in 1e-4 units
RECURSIVE FractionValue(_, _)
FractionValue(text, weight) ==
  IF text = << >> THEN 0
  ELSE DigitValue(Head(text)) * weight + FractionValue(Tail(text), weight \div 10)

\* the index of the first "." of a text, or 0
PointAt(text) ==
  IF \E i \in 1..Len(text) : text[i] = "."
  THEN CHOOSE i \in 1..Len(text) : text[i] = "." /\ \A j \in 1..(i - 1) : text[j] # "."
  ELSE 0

\* parseFloat, in 1e-4 units
parseFloat(text) ==
  LET negative == text # << >> /\ Head(text) = "-"
      digits == IF negative THEN Tail(text) ELSE text
      p == PointAt(digits)
      whole == IF p = 0 THEN digits ELSE SubSeq(digits, 1, p - 1)
      fraction == IF p = 0 THEN << >> ELSE SubSeq(digits, p + 1, Len(digits))
      a == TextToNat(whole) * 10000 + FractionValue(fraction, 1000)
  IN  IF negative THEN -a ELSE a

\* URLSearchParams: a sequence of entries.  The value of an entry is text;
\* the JSON document of the 'gridsites' entry is carried as the value
\* JSON.stringify wrote, which holds the members of each node that are not
\* undefined.
Entry(key, value) == [ key |-> key, value |-> value, json |-> << >> ]

JsonEntry(key, sites) == [ key |-> key, value |-> << >>, json |-> << sites >> ]

\* URLSearchParams.toString, then new URLSearchParams(window.location.search)
ToSearch(entries) ==
  [ i \in 1..Len(entries) |-> [ entries[i] EXCEPT !.value = FormEncode(@) ] ]

FromSearch(search) ==
  [ i \in 1..Len(search) |-> [ search[i] EXCEPT !.value = FormDecode(@) ] ]

HasParam(entries, key) == \E i \in 1..Len(entries) : entries[i].key = key

\* URLSearchParams.get: << >> is null
Get(entries, key) ==
  IF HasParam(entries, key)
  THEN << entries[CHOOSE i \in 1..Len(entries) :
                   entries[i].key = key /\ \A j \in 1..(i - 1) : entries[j].key # key] >>
  ELSE << >>

\* `if (value)` for the result of get: neither null nor ''
Truthy(entry) == entry # << >> /\ (entry[1].value # << >> \/ entry[1].json # << >>)

\* encodeStateToUrl: the search string it returns
encodeStateToUrl(state) ==
  ToSearch(
    (IF Len(state.selectedNodes) > 0
     THEN << Entry("nodes", Join(state.selectedNodes)) >> ELSE << >>)
    \o (IF ~state.pointOfUse.isNull
        THEN << Entry("lat", NumberToString(LatitudeE4(state.pointOfUse.lat))),
                Entry("lon", NumberToString(LongitudeE4(state.pointOfUse.lon))),
                Entry("address", encodeURIComponent(state.pointOfUse.address)) >>
        ELSE << >>)
    \o (IF state.selectedWorkload # << >> /\ state.selectedWorkload[1] # << >>
        THEN << Entry("workload", state.selectedWorkload[1]) >> ELSE << >>)
    \o (IF Len(state.filters.type) > 0
        THEN << Entry("type", Join(state.filters.type)) >> ELSE << >>)
    \o (IF Len(state.filters.operator) > 0
        THEN << Entry("operator", Join(state.filters.operator)) >> ELSE << >>)
    \o (IF Len(state.filters.vacancy) > 0
        THEN << Entry("vacancy", Join(state.filters.vacancy)) >> ELSE << >>)
    \o (IF Len(state.userGridSites) > 0
        THEN << JsonEntry("gridsites", state.userGridSites) >> ELSE << >>)
    \o (IF state.compareMode THEN << Entry("compare", << "true" >>) >> ELSE << >>)
    \o (IF state.latencyRingMode.enabled
        THEN << Entry("latencyRing", << "true" >>),
                Entry("latencyThreshold", NatToText(state.latencyRingMode.threshold)),
                Entry("radiusMultiplier", NatToText(state.latencyRingMode.radiusMultiplier)) >>
        ELSE << >>))

\* decodeStateFromUrl: `has` names the members the returned object has, the
\* other members of `state` are placeholders
decodeStateFromUrl(searchParams) ==
  LET nodesParam == Get(searchParams, "nodes")
      lat == Get(searchParams, "lat")
      lon == Get(searchParams, "lon")
      address == Get(searchParams, "address")
      workload == Get(searchParams, "workload")
      type == Get(searchParams, "type")
      operator == Get(searchParams, "operator")
      vacancy == Get(searchParams, "vacancy")
      gridsites == Get(searchParams, "gridsites")
      compare == Get(searchParams, "compare")
      latencyRing == Get(searchParams, "latencyRing")
      latencyThreshold == Get(searchParams, "latencyThreshold")
      multiplierParam == Get(searchParams, "radiusMultiplier")
      hasPoint == Truthy(lat) /\ Truthy(lon) /\ Truthy(address)
      hasSites == Truthy(gridsites) /\ gridsites[1].json # << >>
      hasCompare == compare # << >> /\ compare[1].value = << "true" >>
      hasRing == /\ latencyRing # << >> /\ latencyRing[1].value = << "true" >>
                 /\ Truthy(latencyThreshold)
  IN  [ isDecoded |-> TRUE,
        has |-> { "filters" }
                \cup (IF Truthy(nodesParam) THEN { "selectedNodes" } ELSE { })
                \cup (IF hasPoint THEN { "pointOfUse" } ELSE { })
                \cup (IF Truthy(workload) THEN { "selectedWorkload" } ELSE { })
                \cup (IF hasSites THEN { "userGridSites" } ELSE { })
                \cup (IF hasCompare THEN { "compareMode" } ELSE { })
                \cup (IF hasRing THEN { "latencyRingMode" } ELSE { }),
        state |->
          [ selectedNodes |-> IF Truthy(nodesParam) THEN Split(nodesParam[1].value) ELSE << >>,
            pointOfUse |->
              IF hasPoint
              THEN [ isNull |-> FALSE,
                     lat |-> Latitude(parseFloat(lat[1].value)),
                     lon |-> Longitude(parseFloat(lon[1].value)),
                     address |-> decodeURIComponent(address[1].value) ]
              ELSE NoPointOfUse,
            selectedWorkload |-> IF Truthy(workload) THEN << workload[1].value >>
                                 ELSE NoWorkload,
            filters |->
              [ type |-> IF Truthy(type) THEN Split(type[1].value) ELSE << >>,
                operator |-> IF Truthy(operator) THEN Split(operator[1].value) ELSE << >>,
                vacancy |-> IF Truthy(vacancy) THEN Split(vacancy[1].value) ELSE << >> ],
            userGridSites |-> IF hasSites THEN gridsites[1].json[1] ELSE << >>,
            compareMode |-> hasCompare,
            latencyRingMode |->
              IF hasRing
              THEN [ enabled |-> TRUE,
                     threshold |-> parseFloat(latencyThreshold[1].value) \div 10000,
                     radiusMultiplier |->
                       IF Truthy(multiplierParam)
                       THEN TextToNat(multiplierParam[1].value) ELSE 1 ]
              ELSE InitialLatencyRingMode ] ]

(***************************************************************************)
(* A URL is shared from one application and opened in a fresh one          *)
(***************************************************************************)
\* a GridSite of the sender, with its id as text
SharedGridSite ==
  [ ManualGridSite(1, Latitude(326000), Longitude(-965000))
      EXCEPT !.id = << "gridsite-1700000000001" >> ]

SharedPoints ==
  { NoPointOfUse,
    ClickedPointOfUse(Latitude(326000), Longitude(-965000)),
    \* LocationSearch: the place name of a search result
    [ isNull |-> FALSE, lat |-> Latitude(327767), lon |-> Longitude(-967970),
      address |-> << "Dallas", ",", " ", "TX", " ", "100", "%", " ", "A", "&", "B" >> ] }

\* application states a URL is shared from
SharedStates ==
  { state \in
      [ selectedNodes : { << >>, << << "dal-colo-1" >> >>,
                          << << "aws-dfw" >>, << "gridsite-1700000000001" >> >> },
        pointOfUse : SharedPoints,
        selectedWorkload : { NoWorkload, << << "llm-inference" >> >> },
        filters : [ type : { << >>, << << "colo" >>, << "gridsite" >> >> },
                    operator : { << >>, << << "Google", " ", "Cloud" >>, << "AWS" >> >> },
                    vacancy : { << >>, << << "high" >> >> } ],
        userGridSites : { << >>, << SharedGridSite >> },
        compareMode : BOOLEAN,
        latencyRingMode : [ enabled : BOOLEAN, threshold : { 10, 20 },
                            radiusMultiplier : { 1, 2 } ] ] :
      \* a selected GridSite exists
      \A i \in 1..Len(state.selectedNodes) :
        state.selectedNodes[i] \in Ids(Catalog) \cup Ids(state.userGridSites) }

InitUrl ==
  /\ sender \in SharedStates
  /\ url = NoUrl
  /\ decoded = NotDecoded
  /\ mounted = FALSE
  /\ HomeInit
  /\ PolygonIdle
  /\ PowerIdle
  /\ LatencyIdle
  /\ CostIdle
  /\ RingIdle

\* ShareButton: the URL of the sender's state, opened in a fresh application
copyShareableUrl ==
  /\ url = NoUrl
  /\ url' = << encodeStateToUrl(sender) >>
  /\ UNCHANGED <<latencyVars, costVars, ringVars>>
  /\ UNCHANGED <<storeVars, homeVars, canvasVars, fill, deleteAll, pointInPolygon, powerVars, stateVars, modeVars, layerVars,
                 sender, decoded, mounted>>

\* decodeStateFromUrl(new URLSearchParams(window.location.search))
CallDecodeStateFromUrl ==
  /\ url # NoUrl
  /\ ~decoded.isDecoded
  /\ decoded' = decodeStateFromUrl(FromSearch(url[1]))
  /\ UNCHANGED <<latencyVars, costVars, ringVars>>
  /\ UNCHANGED <<storeVars, homeVars, canvasVars, fill, deleteAll, pointInPolygon, powerVars, stateVars, modeVars, layerVars,
                 sender, url, mounted>>

\* Home: load state from URL on mount
LoadStateFromUrl ==
  /\ url # NoUrl
  /\ ~mounted
  /\ LET state == decodeStateFromUrl(FromSearch(url[1]))
     IN  /\ pointOfUse' = IF "pointOfUse" \in state.has
                          THEN state.state.pointOfUse ELSE pointOfUse
         /\ selectedWorkload' = IF "selectedWorkload" \in state.has
                                THEN state.state.selectedWorkload ELSE selectedWorkload
         /\ filters' = IF "filters" \in state.has THEN state.state.filters ELSE filters
         /\ userGridSites' = IF "userGridSites" \in state.has
                             THEN AddEach(userGridSites, state.state.userGridSites)
                             ELSE userGridSites
         /\ selectedNodes' = IF "selectedNodes" \in state.has
                             THEN state.state.selectedNodes ELSE selectedNodes
         /\ compareMode' = IF state.state.compareMode THEN TRUE ELSE compareMode
  /\ mounted' = TRUE
  /\ UNCHANGED <<latencyVars, costVars, ringVars>>
  /\ UNCHANGED <<homeVars, canvasVars, fill, deleteAll, pointInPolygon, powerVars, storeNodes, latencyRingMode, modeVars,
                 layerVars, sender, url, decoded>>

NextUrl ==
  \/ copyShareableUrl
  \/ CallDecodeStateFromUrl
  \/ LoadStateFromUrl

SpecUrl == InitUrl /\ [][NextUrl]_vars

(***************************************************************************)
(* The page that opened a shared URL is reloaded                           *)
(***************************************************************************)
MaxReloadedGridSites == 3

\* a reload: the components start anew, the store is rehydrated from what
\* partialize persisted (userGridSites among it), the URL is the same
ReloadPage ==
  /\ mounted
  /\ Len(userGridSites) < MaxReloadedGridSites
  /\ mounted' = FALSE
  /\ decoded' = NotDecoded
  /\ showFillRegionModal' = FALSE
  /\ isDrawingMode' = FALSE
  /\ drawnPolygon' = Null
  /\ showLatencyModal' = FALSE
  /\ radiusMultiplier' = 1
  /\ calculateOnlyMode' = FALSE
  /\ currentPolygon' = << >>
  /\ mousePosition' = NoMouse
  /\ pendingPolygons' = << >>
  /\ fill' = NoFill
  /\ isPlacingGridSite' = FALSE
  /\ isPlacingPointOfUse' = FALSE
  /\ isDeleteMode' = FALSE
  /\ storeNodes' = Catalog
  /\ UNCHANGED <<latencyVars, costVars, ringVars>>
  /\ UNCHANGED <<storeVars, selectedNodes, pointOfUse, selectedWorkload, filters,
                 compareMode, latencyRingMode, now, layerVars, deleteAll,
                 pointInPolygon, powerVars, sender, url>>

NextReload ==
  \/ NextUrl
  \/ ReloadPage

SpecReload == InitUrl /\ [][NextReload]_vars

(***************************************************************************)
(* C1: for both modes of calcLatencyBreakdown, the sum of the returned     *)
(* named terms other than `total` equals the returned `total`.             *)
(***************************************************************************)
LatencyBreakdownSumsToTotal ==
  latencyBreakdown.total # NotComputed =>
    SumSeq(latencyBreakdown.terms) = latencyBreakdown.total

\* a cloud-mode breakdown has been computed for inputs in which every term
\* is non-zero
LatencyBreakdownCloudWitness ==
  /\ latencyBreakdown.total # NotComputed
  /\ ~latencyBreakdown.isEdge
  /\ \A i \in 1..Len(latencyBreakdown.terms) : latencyBreakdown.terms[i] > 0

HasKey(b, key) == \E i \in 1..Len(b.keys) : b.keys[i] = key
TermOf(b, key) == b.terms[CHOOSE i \in 1..Len(b.keys) : b.keys[i] = key]

AllWeightsPositive == \A n \in WeightNames : params.weights[n] > 0

(***************************************************************************)
(* C3: for weights that are all > 0, calcEdgeLatency(d, m) is strictly     *)
(* less than calcCloudLatency(d, weights, m).                              *)
(***************************************************************************)
EdgeBelowCloud ==
  (AllWeightsPositive /\ cloudLatency # NotComputed /\ edgeLatency # NotComputed)
    => edgeLatency < cloudLatency

\* both totals have been computed for the smallest positive weights
EdgeBelowCloudWitness ==
  /\ AllWeightsPositive
  /\ params.weights = UniformWeights(1)
  /\ cloudLatency # NotComputed
  /\ edgeLatency # NotComputed

WithoutCompliance(f) == [ f EXCEPT !.strongCompliance = FALSE ]

LowTierUsage == [ hours |-> 730, egressGB |-> 1000, storageGB |-> 1000, kW |-> 10 ]

OmitsCloudRates ==
  /\ node.pricing.cloud_gpu_hour = Undefined
  /\ node.pricing.egress_per_gb = Undefined

(***************************************************************************)
(* C4: calcCloudCost with strongCompliance=true is calcCloudCost with      *)
(* strongCompliance=false (other flags equal) times 1.05; 3481 becomes     *)
(* 3655.05 for the default node and low-tier usage.                        *)
(***************************************************************************)
CloudComplianceUplift ==
  (cloudCost # NotComputed /\ node.type = "cloud" /\ costFlags.strongCompliance) =>
    LET plain == calcCloudCost(node, usage, WithoutCompliance(costFlags))
    IN  /\ plain % 100 = 0
        /\ cloudCost = (plain \div 100) * 105
        /\ (OmitsCloudRates /\ usage = LowTierUsage) =>
             (plain = 348100000 /\ cloudCost = 365505000)

\* the default cloud node has been priced under strong compliance for the
\* low-tier usage
CloudComplianceUpliftWitness ==
  /\ cloudCost # NotComputed
  /\ node.type = "cloud"
  /\ costFlags.strongCompliance
  /\ OmitsCloudRates
  /\ usage = LowTierUsage

EdgeBaseSubtotal ==
  LET leaseRate == IF node.pricing.usd_per_kw_month = Undefined
                   THEN 16000000 ELSE node.pricing.usd_per_kw_month
  IN  leaseRate * usage.kW + 80000000 + 30000000 + 50000000 + 40000000

(***************************************************************************)
(* C5: calcEdgeCost with strongCompliance=true is (base subtotal + 200)    *)
(* times 1.15; with strongCompliance=false it is base subtotal times 1.15. *)
(***************************************************************************)
EdgeComplianceBeforeRedundancy ==
  (edgeCost # NotComputed /\ node.type # "cloud") =>
    LET lifted == IF costFlags.strongCompliance
                  THEN EdgeBaseSubtotal + 20000000 ELSE EdgeBaseSubtotal
    IN  /\ lifted % 100 = 0
        /\ edgeCost = (lifted \div 100) * 115

\* a gridsite drawing 10 kW has been priced under strong compliance
EdgeComplianceWitness ==
  /\ edgeCost # NotComputed
  /\ node.type = "gridsite"
  /\ costFlags.strongCompliance
  /\ usage.kW = 10

(***************************************************************************)
(* C6: a cloud node that omits cloud_gpu_hour and egress_per_gb is priced  *)
(* at 4.00 per GPU-hour and 0.09 per GB egress; hours=730, egress=1000,    *)
(* storage=1000 without compliance costs exactly 3481.                     *)
(***************************************************************************)
CloudDefaultRates ==
  (cloudCost # NotComputed /\ node.type = "cloud" /\ OmitsCloudRates
     /\ ~costFlags.strongCompliance) =>
    /\ cloudCost = 400000 * usage.hours + 9000 * usage.egressGB
                   + 2100 * usage.storageGB + 15000000 + 30000000
    /\ (usage = LowTierUsage => cloudCost = 348100000)

\* the default cloud node has been priced at 3481 for the low-tier usage
CloudDefaultRatesWitness ==
  /\ cloudCost = 348100000
  /\ node.type = "cloud"
  /\ OmitsCloudRates
  /\ ~costFlags.strongCompliance
  /\ usage = LowTierUsage

ConfiguredThresholds == {5, 10, 15, 20, 25}

IsFillOf(site, t) == site.id[1] = "fill-gridsite" /\ site.id[2] = t

\* the positions of a sequence of nodes
Positions(sites) == [ i \in 1..Len(sites) |-> << sites[i].lat, sites[i].lon >> ]

(***************************************************************************)
(* C7 as stated: a fill called with a threshold that is not in the radius  *)
(* table generates no candidate and adds nothing to userGridSites.         *)
(***************************************************************************)
UnknownThresholdFillIsEmpty ==
  /\ (fill.called /\ fill.latencyThreshold \notin ConfiguredThresholds)
       => Len(fill.gridsites) = 0
  /\ \A i \in 1..Len(userGridSites) :
       userGridSites[i].id[1] = "fill-gridsite"
         => userGridSites[i].id[2] \in ConfiguredThresholds

(***************************************************************************)
(* C7 amended: a fill called with a threshold that is not in the radius    *)
(* table uses the 10 ms radius, 3.218 km times the multiplier, and         *)
(* generates candidates at the positions a 10 ms fill of the same region   *)
(* generates, which on the default rectangle is at least one; its ids      *)
(* carry the threshold it was called with.                                 *)
(***************************************************************************)
UnknownThresholdFillUsesDefaultRadius ==
  (fill.called /\ fill.latencyThreshold \notin ConfiguredThresholds) =>
    /\ fill.radiusKm = 3218 * fill.multiplier
    /\ Positions(fill.gridsites)
         = Positions(FillGridSites(10, fill.useCustomShape, fill.polygon, fill.multiplier))
    /\ (~fill.useCustomShape) => Len(fill.gridsites) > 0
    /\ \A i \in 1..Len(fill.gridsites) :
         IsFillOf(fill.gridsites[i], fill.latencyThreshold)

\* a fill with threshold 7 has materialised its candidates
UnknownThresholdFillWitness ==
  /\ fill.called
  /\ fill.latencyThreshold = 7
  /\ ~fill.calculateOnly
  /\ Len(fill.gridsites) > 0
  /\ \E i \in 1..Len(userGridSites) : IsFillOf(userGridSites[i], 7)

\* the documented radius of a configured threshold, in metres
DocumentedRadius(t) ==
  CASE t = 5 -> 1207 [] t = 10 -> 3218 [] t = 15 -> 9724 [] t = 20 -> 28163
    [] t = 25 -> 56327

(***************************************************************************)
(* C8: once createLatencyRingFeatures has run, a threshold outside         *)
(* {5, 10, 15, 20, 25} has produced no feature, and a threshold inside it  *)
(* has produced one ring per node, in node order, centred on the node,     *)
(* whose radius is the table's radius (1.207, 3.218, 9.724, 28.163,        *)
(* 56.327 km) times the multiplier.                                        *)
(***************************************************************************)
RingPerNodeOrNone ==
  ringFeatures.computed =>
    LET t == ringMode.threshold
        f == ringFeatures.features
    IN  /\ t \notin ConfiguredThresholds => Len(f) = 0
        /\ t \in ConfiguredThresholds =>
             /\ Len(f) = Len(ringNodes)
             /\ \A i \in 1..Len(f) :
                  /\ f[i].properties.nodeId = ringNodes[i].id
                  /\ f[i].properties.rtt = t
                  /\ f[i].properties.radius = DocumentedRadius(t) * ringMode.radiusMultiplier
                  /\ f[i].geometry.radiusKm = f[i].properties.radius
                  /\ f[i].geometry.center = << ringNodes[i].lon, ringNodes[i].lat >>

\* rings were asked for an unconfigured threshold around two nodes
RingUnknownThresholdWitness ==
  /\ ringFeatures.computed
  /\ ringMode.threshold = 7
  /\ Len(ringNodes) = 2
  /\ ringMode.radiusMultiplier = 2
  /\ Len(ringFeatures.features) = 0

\* the fill swept the rectangle and not a drawn polygon
IsRectangleFill == fill.called /\ ~(fill.useCustomShape /\ ~fill.polygon.isNull)

\* the radius of the last fill, in half centimetres
FillRadius == fill.radiusKm * (UnitsPerKm \div 1000)

\* three times the square of the radius
ThreeRadiusSquared ==
  WideAdd(WideMul(FillRadius, FillRadius),
          WideAdd(WideMul(FillRadius, FillRadius), WideMul(FillRadius, FillRadius)))

\* candidates i and i+1 of the last fill lie in one row
SameRow(i) == fill.gridsites[i].lat = fill.gridsites[i + 1].lat

\* the ground distance between candidates i and i+1 of one row: a degree of
\* longitude is 111 km
RowStep(i) == fill.gridsites[i + 1].lon - fill.gridsites[i].lon

(***************************************************************************)
(* C9 as stated: in a rectangle fill, two consecutive candidates of one    *)
(* row are exactly R * sqrt(3) apart on the ground, that is, the square of *)
(* their distance is three times the square of the radius.                 *)
(***************************************************************************)
SameRowSpacingIsRootThree ==
  IsRectangleFill =>
    \A i \in 1..(Len(fill.gridsites) - 1) :
      SameRow(i) => WideMul(RowStep(i), RowStep(i)) = ThreeRadiusSquared

(***************************************************************************)
(* C9 amended: in a rectangle fill, two consecutive candidates of one row  *)
(* are exactly R * 1.73 apart on the ground (the longitude step in degrees *)
(* is that spacing over 111), so the square of their distance is           *)
(* 2.9929 R^2, short of 3 R^2.                                             *)
(***************************************************************************)
SameRowSpacingIs173Hundredths ==
  IsRectangleFill =>
    \A i \in 1..(Len(fill.gridsites) - 1) :
      SameRow(i) =>
        /\ FillRadius % 100 = 0
        /\ RowStep(i) = (FillRadius \div 100) * 173
        /\ WideLess(WideMul(RowStep(i), RowStep(i)), ThreeRadiusSquared)

\* a 15 ms rectangle fill produced a row with two candidates
SameRowSpacingWitness ==
  /\ IsRectangleFill
  /\ fill.latencyThreshold = 15
  /\ Len(fill.gridsites) >= 2
  /\ SameRow(1)

\* an eighth of the step of the last fill
ProbeStep == fill.spacingDegrees \div 8

\* the points of the swept rectangle on a lattice of an eighth of the step,
\* anchored at the south-west corner
ProbePoints ==
  { [ lat |-> fill.bounds.south + (j * ProbeStep), lon |-> fill.bounds.west + (i * ProbeStep) ] :
      i \in 0..((fill.bounds.east - fill.bounds.west) \div ProbeStep),
      j \in 0..((fill.bounds.north - fill.bounds.south) \div ProbeStep) }

\* point p is within the radius of candidate c, by squared flat distance
Covers(c, p) ==
  WideLeq(WideAdd(WideMul(p.lon - c.lon, p.lon - c.lon),
                  WideMul(p.lat - c.lat, p.lat - c.lat)),
          WideMul(FillRadius, FillRadius))

Covered(p) == \E i \in 1..Len(fill.gridsites) : Covers(fill.gridsites[i], p)

(***************************************************************************)
(* C10 as stated: in a rectangle fill, every point of the rectangle is     *)
(* within the radius of some candidate, in the flat metric.  Stated on     *)
(* the points of the rectangle that lie on a lattice of an eighth of the   *)
(* spacing, anchored at the south-west corner.                             *)
(***************************************************************************)
RectangleFillLeavesNoGap ==
  IsRectangleFill => \A p \in ProbePoints : Covered(p)

(***************************************************************************)
(* C11: a count-only fill leaves userGridSites and selectedNodes as they   *)
(* were and reports as many nodes as a materializing fill of the same      *)
(* threshold, multiplier and region would add; a materializing fill        *)
(* appends exactly the generated candidates and keeps the existing         *)
(* entries.                                                                *)
(***************************************************************************)
FillCountsOrAppends ==
  [][ \A t \in FillThresholds :
        \* the first two conjuncts follow from the third
        (fill'.latencyThreshold = t /\ ~showFillRegionModal' /\ FillRegionButton(t)) =>
          LET candidates == FillGridSites(t, FALSE, drawnPolygon, radiusMultiplier)
          IN  IF calculateOnlyMode
              THEN /\ userGridSites' = userGridSites
                   /\ selectedNodes' = selectedNodes
                   /\ fill'.alerted = Len(candidates)
              ELSE /\ userGridSites' = userGridSites \o candidates
                   /\ fill'.alerted = NotComputed ]_vars

\* a count-only fill reported a positive count while GridSites existed, one
\* of them selected, after an earlier fill had materialized its candidates
\* behind a manually placed GridSite
FillCountsOrAppendsWitness ==
  /\ fill.called /\ fill.calculateOnly /\ fill.alerted > 0
  /\ Len(userGridSites) > fill.alerted
  /\ userGridSites[1].id[1] = "gridsite"
  /\ userGridSites[Len(userGridSites)].id[1] = "fill-gridsite"
  /\ \E i \in 1..Len(userGridSites) : Includes(selectedNodes, userGridSites[i].id)

(***************************************************************************)
(* C12: in every reachable state the nodes of userGridSites have pairwise  *)
(* distinct ids, and none has the id of a catalog node.                    *)
(***************************************************************************)
GridSiteIdsAreUnique ==
  /\ \A i, j \in 1..Len(userGridSites) :
       userGridSites[i].id = userGridSites[j].id => i = j
  /\ \A i \in 1..Len(userGridSites) : userGridSites[i].id \notin Ids(storeNodes)

(***************************************************************************)
(* C13: handleFillRegion runs with useCustomShape = true only while        *)
(* drawnPolygon is a polygon of at least 3 vertices, so a custom-shape     *)
(* fill never falls back to the default Dallas-Fort Worth rectangle.       *)
(***************************************************************************)
CustomFillHasPolygon ==
  (fill.called /\ fill.useCustomShape) =>
    /\ ~fill.polygon.isNull
    /\ Len(fill.polygon.points) >= 3
    /\ fill.bounds # DFWBounds

\* the members of the store a shared URL is to carry equal those of `state`
StoreEquals(state) ==
  /\ selectedNodes = state.selectedNodes
  /\ pointOfUse = state.pointOfUse
  /\ selectedWorkload = state.selectedWorkload
  /\ filters = state.filters
  /\ userGridSites = state.userGridSites
  /\ compareMode = state.compareMode

(***************************************************************************)
(* C14: once the on-mount URL load of a fresh application has run on a URL *)
(* produced by encodeStateToUrl(s), the store's selectedNodes, pointOfUse, *)
(* selectedWorkload, filters, userGridSites, compareMode and               *)
(* latencyRingMode equal those of s.                                       *)
(***************************************************************************)
UrlLoadReproducesState ==
  mounted => (StoreEquals(sender) /\ latencyRingMode = sender.latencyRingMode)

(***************************************************************************)
(* C15: decodeStateFromUrl(encodeStateToUrl(s)) reproduces selectedNodes,  *)
(* pointOfUse, selectedWorkload, filters, userGridSites, compareMode and   *)
(* latencyRingMode of s, a member absent from the result being read as its *)
(* initial default.                                                        *)
(***************************************************************************)
UrlCodecRoundTrip ==
  decoded.isDecoded => decoded.state = sender

\* a node passes the filters f
PassesFilters(n, f) ==
  /\ (Len(f.type) > 0 => Includes(f.type, n.type))
  /\ (Len(f.operator) > 0 => Includes(f.operator, n.operator))
  /\ (Len(f.vacancy) > 0 => Includes(f.vacancy, n.vacancy))

(***************************************************************************)
(* C16: every node placed in the map's 'nodes' source satisfies the        *)
(* filters that were active when it was placed there, catalog nodes and    *)
(* user-placed GridSites alike.                                            *)
(***************************************************************************)
NodesSourceSatisfiesFilters ==
  nodesSource.created =>
    \A i \in 1..Len(nodesSource.features) :
      PassesFilters(nodesSource.features[i], nodesSource.filters)

(***************************************************************************)
(* C17: whenever delete mode is active and the user clicks a user-placed   *)
(* GridSite on the map, the node is removed from userGridSites, delete     *)
(* mode is switched off and the node is not selected by the click,         *)
(* whenever delete mode was entered.                                       *)
(***************************************************************************)
DeleteModeClickDeletes ==
  [][ \A nodeId \in LayerIds :
        (isDeleteMode /\ nodeId \in Ids(userGridSites) /\ ClickNode(nodeId)) =>
          /\ nodeId \notin Ids(userGridSites')
          /\ ~isDeleteMode'
          /\ (Includes(selectedNodes', nodeId) => Includes(selectedNodes, nodeId)) ]_vars

\* the selected ids that are ids of catalog nodes, in order
CatalogSelection(selection) ==
  SelectSeq(selection, LAMBDA nodeId : nodeId \in Ids(storeNodes))

DefaultUsageFollowsFlags ==
  [][ CostComparison =>
        /\ usage'.hours = 730
        /\ usage'.kW = 10
        /\ usage'.egressGB = (IF costFlags.highEgress THEN 10000 ELSE 1000)
        /\ usage'.storageGB = (IF costFlags.needsHotStorage THEN 5000 ELSE 1000)
        /\ DOMAIN usage' = { "hours", "egressGB", "storageGB", "kW" }
        /\ usage' = getDefaultUsage([ costFlags EXCEPT
                                        !.strongCompliance = ~costFlags.strongCompliance ])
    ]_vars

\* the cost tab has computed the low-tier usage for a workload that only
\* asks for strong compliance
DefaultUsageWitness ==
  /\ costFlags = [ needsHotStorage |-> FALSE, strongCompliance |-> TRUE,
                   highEgress |-> FALSE ]
  /\ usage = [ hours |-> 730, egressGB |-> 1000, storageGB |-> 1000, kW |-> 10 ]
  /\ costBreakdown # NoCostBreakdown
  /\ costBreakdown = calcCostBreakdown(node, usage, costFlags)

\* C20: isPointInPolygon classifies the centroid of a convex polygon of at
\* least 3 vertices (the mean of its vertices, or the centre of mass of its
\* area) as inside, and every point outside the polygon's bounding box as
\* outside
CentroidInsideBoundsOutside ==
  pointInPolygon.called =>
    LET point == pointInPolygon.point
        polygon == pointInPolygon.polygon
    IN  /\ ( /\ IsConvexPolygon(polygon)
             /\ IsVertexCentroid(point, polygon) \/ IsAreaCentroid(point, polygon) )
             => pointInPolygon.inside
        /\ IsOutsideBounds(point, polygon) => ~pointInPolygon.inside

\* the centre of mass of a quadrilateral, which is not the mean of its
\* vertices, has been classified
CentroidInsideWitness ==
  /\ pointInPolygon.called
  /\ Len(pointInPolygon.polygon) = 4
  /\ IsConvexPolygon(pointInPolygon.polygon)
  /\ IsAreaCentroid(pointInPolygon.point, pointInPolygon.polygon)
  /\ ~IsVertexCentroid(pointInPolygon.point, pointInPolygon.polygon)
  /\ pointInPolygon.inside

\* the keys of a breakdown are pairwise different and none of them is `total`
KeysAreNamedTerms(b) ==
  /\ Len(b.keys) = Len(b.terms)
  /\ \A i, j \in 1..Len(b.keys) : i # j => b.keys[i] # b.keys[j]
  /\ \A i \in 1..Len(b.keys) : b.keys[i] # "total"

\* the additive terms of calcEdgeLatency, in the order of the breakdown
EdgeLatencyTerms(p) ==
  << calcPropagationMs(p.distanceKm) * 2, EDGE_LOCAL_ROUTING_MS, p.inferenceMs >>

\* the additive terms of calcCloudLatency that carry no weight
CloudLatencyFixedTerms(p) ==
  << calcPropagationMs(p.distanceKm) * 2, PER_HOP_MS.internet_gateway,
     PER_HOP_MS.vpc_routing, p.inferenceMs >>

StaggeredLattice(f) ==
  LET s == f.spacingDegrees
      b == f.bounds
      InRegion(p) ==
        /\ b.south <= p.lat /\ p.lat <= b.north
        /\ b.west <= p.lon /\ p.lon <= b.east
        /\ (f.useCustomShape /\ ~f.polygon.isNull)
             => isPointInPolygon(<< p.lon, p.lat >>, f.polygon.points)
  IN  { p \in { [ lat |-> b.south + k * s,
                  lon |-> b.west + j * s + (k % 2) * (s \div 2) ] :
                  k \in 0..(SweepRows(b, s) - 1), j \in 0..(SweepCols(b, s) - 1) } :
        InRegion(p) }

\* C22: the candidates of a region fill are exactly the points of the
\* staggered lattice (row k from the south edge at latitude south + k * s,
\* longitudes west + j * s + (k mod 2) * s / 2) that lie within the bounds
\* and, in polygon mode, pass isPointInPolygon
FillIsStaggeredLattice ==
  fill.called =>
    { [ lat |-> fill.gridsites[c].lat, lon |-> fill.gridsites[c].lon ] :
        c \in 1..Len(fill.gridsites) } = StaggeredLattice(fill)

\* a power layer is on the map and shown
IsVisible(layerType) ==
  /\ powerMap.layers[layerType].exists
  /\ powerMap.layers[layerType].visibility = "visible"

OneHandlerPerLayerEvent ==
  overlayEffect.registered =>
    \A l \in PowerLayerTypes : \A e \in PowerEvents :
      Cardinality(powerMap.handlers[l][e]) = 1

\* registerPowerLayers has run, the layers were hidden by
\* unregisterPowerLayers, and registerPowerLayers has run again
RegisteredAgainWitness ==
  /\ overlayEffect.registered
  /\ overlayEffect.hidden
  /\ powerOverlay.enabled
  /\ ~overlayEffect.pending
  /\ powerMap.handlerStorage > 0
  /\ \A l \in PowerLayerTypes : \A e \in PowerEvents :
       powerMap.handlers[l][e] = { powerMap.handlerStorage }

\* C25: a point added with the 'A' key while no polygon is drawn and none is
\* queued, as it is right after handleStartDrawing, hands setDrawnPolygon a
\* polygon of exactly one vertex
FirstPointStartsPolygon ==
  [][(KeyAddPoint /\ drawnPolygon.isNull /\ pendingPolygons = << >>)
       => Len(pendingPolygons'[1]) = 1]_vars

\* the GridSites the URL of this page carries
UrlGridSites == decodeStateFromUrl(FromSearch(url[1])).state.userGridSites

\* C26: the on-mount URL load, run on a store that already holds the URL's
\* GridSites as the rehydrated store of a reloaded page does, leaves
\* userGridSites as it is
ReloadKeepsGridSites ==
  [][(LoadStateFromUrl /\ userGridSites = UrlGridSites)
       => userGridSites' = userGridSites]_vars

\* C27: the feature list written to the map's 'nodes' source holds no node
\* id twice
NodesSourceIdsAreUnique ==
  nodesSource.created =>
    \A i, j \in 1..Len(nodesSource.features) :
      i # j => nodesSource.features[i].id # nodesSource.features[j].id

\* a click on the map taken while GridSite placement mode is on
PlacementClick ==
  /\ isPlacingGridSite
  /\ \E p \in MapClickPositions : handleMapClick(p[1], p[2])

\* C28: GridSite placement mode and delete mode are never on together, and
\* a map click in placement mode adds exactly one GridSite, leaves
\* placement mode and leaves pointOfUse as it is
PlacementExcludesDeleteMode ==
  /\ [](~(isPlacingGridSite /\ isDeleteMode))
  /\ [][PlacementClick =>
          /\ Len(userGridSites') = Len(userGridSites) + 1
          /\ SubSeq(userGridSites', 1, Len(userGridSites)) = userGridSites
          /\ ~isPlacingGridSite'
          /\ pointOfUse' = pointOfUse]_vars

\* a GridSite was placed with a click while point-of-use placement was on
\* as well: the click set no point of use; delete mode was entered after
PlacedThenDeleteModeWitness ==
  /\ Len(userGridSites) = 1
  /\ pointOfUse.isNull
  /\ isPlacingPointOfUse
  /\ ~isPlacingGridSite
  /\ isDeleteMode

\* C29: the total of a breakdown equals the standalone total computed for
\* the same inputs: calcCloudLatency or calcEdgeLatency for the latency
\* breakdown of that mode, calcCloudCost for the cost breakdown of a cloud
\* node and calcEdgeCost for that of any other node
BreakdownTotalsAgree ==
  /\ (latencyBreakdown.total # NotComputed /\ ~latencyBreakdown.isEdge
        /\ cloudLatency # NotComputed)
       => latencyBreakdown.total = cloudLatency
  /\ (latencyBreakdown.total # NotComputed /\ latencyBreakdown.isEdge
        /\ edgeLatency # NotComputed)
       => latencyBreakdown.total = edgeLatency
  /\ (costBreakdown.total # NotComputed /\ cloudCost # NotComputed)
       => (node.type = "cloud" /\ costBreakdown.total = cloudCost)
  /\ (costBreakdown.total # NotComputed /\ edgeCost # NotComputed)
       => (node.type # "cloud" /\ costBreakdown.total = edgeCost)

\* the breakdown and the standalone cost of a colo node under strong
\* compliance have both been computed
EdgeTotalsWitness ==
  /\ costBreakdown.total # NotComputed
  /\ edgeCost # NotComputed
  /\ node.type = "colo"
  /\ costFlags.strongCompliance
  /\ usage.kW > 0
  /\ edgeCost > 0

\* C30: for every threshold, in the table or not, and both radius
\* multipliers the step of the sweep in degrees is positive and the sweep
\* ends with a count of candidates; over a rectangle with south > north or
\* west > east the count is zero
SweepEnds ==
  fill.called =>
    /\ fill.spacingDegrees > 0
    /\ fill.alerted = Len(fill.gridsites)
    /\ IsInverted(fill.bounds) => fill.gridsites = << >>

\* a sweep for a threshold the table lacks, with the doubled radius, over a
\* rectangle with south > north
SweepInvertedWitness ==
  /\ fill.called
  /\ fill.latencyThreshold = 7
  /\ fill.multiplier = 2
  /\ fill.bounds.south > fill.bounds.north
  /\ fill.bounds.west < fill.bounds.east
  /\ fill.alerted = 0

====
